---- MODULE Spec2Model ----
(***************************************************************************)
(* Google Scholar Orderer: venue extraction, ranking resolution and the    *)
(* search-page annotation pipeline of the content script.                  *)
(*                                                                         *)
(* Strings are sequences of one-character strings.  Characters outside     *)
(* ASCII are written as tokens: "ELLIPSIS" (U+2026), "NBSP" (U+00A0),      *)
(* "ENDASH" (U+2013), "EMDASH" (U+2014), "TAB" (U+0009).                   *)
(***************************************************************************)
EXTENDS Integers, Sequences, FiniteSets, TLC

VARIABLES
    rankingsData,   \* the global `rankingsData`: NullData before loading
    call,           \* the last call of a pure function and what it returned
    results,        \* the search results of the page, in document order
    lastFetchTime,  \* the global `lastFetchTime`
    now,            \* Date.now()
    pc,             \* where init() is: "start", "loaded" or "ready"
    timers,         \* the setTimeout callbacks of the mutation observer not yet run
    originalOrder,  \* the global `originalOrder`, as positions in results
    currentSort     \* the global `currentSort`

pageVars == <<results, lastFetchTime, now, pc, timers, originalOrder, currentSort>>

vars == <<rankingsData, call, pageVars>>

-----------------------------------------------------------------------------
(* Characters *)

LowerChars ==
    <<"a","b","c","d","e","f","g","h","i","j","k","l","m",
      "n","o","p","q","r","s","t","u","v","w","x","y","z">>

UpperChars ==
    <<"A","B","C","D","E","F","G","H","I","J","K","L","M",
      "N","O","P","Q","R","S","T","U","V","W","X","Y","Z">>

DigitChars == <<"0","1","2","3","4","5","6","7","8","9">>

Range(s) == {s[i] : i \in DOMAIN s}

LowerSet == Range(LowerChars)
UpperSet == Range(UpperChars)
DigitSet == Range(DigitChars)

IsLower(c) == c \in LowerSet
IsUpper(c) == c \in UpperSet
IsDigit(c) == c \in DigitSet

\* the class \s of a JavaScript regular expression, and what trim() removes
SpaceSet == {" ", "TAB", "NBSP"}

IsSpace(c) == c \in SpaceSet

\* String.prototype.toLowerCase, one character
ToLowerChar(c) ==
    IF IsUpper(c)
    THEN LowerChars[CHOOSE i \in DOMAIN UpperChars : UpperChars[i] = c]
    ELSE c

toLowerCase(s) == [i \in DOMAIN s |-> ToLowerChar(s[i])]

\* the value of a digit character
DigitValue(c) == (CHOOSE i \in DOMAIN DigitChars : DigitChars[i] = c) - 1

-----------------------------------------------------------------------------
(* String primitives *)

\* String.prototype.trim
trim(s) ==
    LET leading == Cardinality({i \in DOMAIN s : \A j \in 1..i : IsSpace(s[j])})
        trailing == Cardinality({i \in DOMAIN s : \A j \in i..Len(s) : IsSpace(s[j])})
    IN IF leading = Len(s) THEN <<>>
       ELSE SubSeq(s, leading + 1, Len(s) - trailing)

\* String.prototype.includes
includes(s, t) ==
    \/ t = <<>>
    \/ \E i \in 1..(Len(s) - Len(t) + 1) :
          s[i] = t[1] /\ SubSeq(s, i, i + Len(t) - 1) = t

\* String.prototype.startsWith
startsWith(s, t) ==
    Len(t) <= Len(s) /\ SubSeq(s, 1, Len(t)) = t

\* a character that does not continue a run of whitespace
StartsRun(m) == ~m.space \/ m.first

\* .replace(/\s+/g, ' '): every maximal run of whitespace becomes one space
CollapseSpaces(s) ==
    LET marked == [i \in DOMAIN s |->
                     [c |-> IF IsSpace(s[i]) THEN " " ELSE s[i],
                      space |-> IsSpace(s[i]),
                      first |-> i = 1 \/ ~IsSpace(s[i - 1])]]
        kept == SelectSeq(marked, StartsRun)
    IN [i \in DOMAIN kept |-> kept[i].c]

\* the character class [a-z0-9\s]
IsNormChar(c) == IsLower(c) \/ IsDigit(c) \/ IsSpace(c)

\* normalizeString with the whitespace collapsed before the other characters
\* are removed
normalizeString_CollapseFirst(str) ==
    trim(SelectSeq(CollapseSpaces(toLowerCase(str)), IsNormChar))

normalizeString(str) ==
    trim(CollapseSpaces(SelectSeq(toLowerCase(str), IsNormChar)))

-----------------------------------------------------------------------------
(* The matcher *)

\* target.length below which only equality matches
MinSubstringTarget == 10
\* detected.length from which the reverse (truncation) check is allowed
MinTruncatedDetected == 25
\* aliasNorm.length from which an alias takes part in the alias pass
MinAliasLength == 10

isFullNameMatch_NoExactGuard(detected, target, exactMatch) ==
    IF target = <<>> THEN FALSE
    ELSE IF detected = target THEN TRUE
    ELSE IF includes(detected, target) THEN TRUE
    ELSE Len(detected) >= MinTruncatedDetected /\ includes(target, detected)

isFullNameMatch_NoTruncatedTest(detected, target, exactMatch) ==
    IF target = <<>> THEN FALSE
    ELSE IF detected = target THEN TRUE
    ELSE IF exactMatch \/ Len(target) < MinSubstringTarget THEN FALSE
    ELSE includes(detected, target)

isFullNameMatch_ReverseAnyLength(detected, target, exactMatch) ==
    IF target = <<>> THEN FALSE
    ELSE IF detected = target THEN TRUE
    ELSE IF exactMatch \/ Len(target) < MinSubstringTarget THEN FALSE
    ELSE IF includes(detected, target) THEN TRUE
    ELSE includes(target, detected)

\* findRanking's inner isFullNameMatch (the current copy of the content script)
isFullNameMatch(detected, target, exactMatch) ==
    IF target = <<>> THEN FALSE
    ELSE IF detected = target THEN TRUE
    ELSE IF exactMatch \/ Len(target) < MinSubstringTarget THEN FALSE
    ELSE IF includes(detected, target) THEN TRUE
    ELSE IF Len(detected) >= MinTruncatedDetected /\ includes(target, detected)
         THEN TRUE
         ELSE FALSE

\* the isFullNameMatch of the two copies in content.js: short targets are
\* rejected before the equality test
isFullNameMatchContentJs(detected, target, exactMatch) ==
    IF target = <<>> \/ Len(target) < MinSubstringTarget THEN FALSE
    ELSE IF detected = target THEN TRUE
    ELSE IF exactMatch THEN FALSE
    ELSE IF includes(detected, target) THEN TRUE
    ELSE IF Len(detected) >= MinTruncatedDetected /\ includes(target, detected)
         THEN TRUE
         ELSE FALSE

-----------------------------------------------------------------------------
(* The configuration payload and the ranking index *)

\* rankingsData before loadRankingsData has assigned it
NullData == [null |-> TRUE]

\* findRanking's null
None == [type |-> "none"]

\* a TypeError thrown out of findRanking
TypeError == [type |-> "TypeError"]

\* the JSON value null
JsonNull == [null |-> TRUE]

\* rankingsData.aliases is there
HasAliases(index) == "aliases" \in DOMAIN index

\* a <= b for canonical numeric strings a and b (no leading zero)
RECURSIVE DigitsLeq(_, _)
DigitsLeq(a, b) ==
    IF Len(a) # Len(b) THEN Len(a) < Len(b)
    ELSE IF a = <<>> THEN TRUE
    ELSE IF Head(a) # Head(b) THEN DigitValue(Head(a)) < DigitValue(Head(b))
    ELSE DigitsLeq(Tail(a), Tail(b))

\* the largest array index of ECMAScript, 2^32 - 2 = 4294967294
MaxArrayIndex == <<"4","2","9","4","9","6","7","2","9","4">>

\* an own property key that is an array index (a canonical numeric string)
IsArrayIndex(k) ==
    /\ k # <<>>
    /\ \A i \in DOMAIN k : IsDigit(k[i])
    /\ (Len(k) = 1 \/ k[1] # "0")
    /\ DigitsLeq(k, MaxArrayIndex)

\* the members of obj (a JSON object as its members in document order, keys
\* distinct) at the positions `left`, which hold array-index keys, in ascending
\* numeric order
RECURSIVE AscendingIndexKeys(_, _)
AscendingIndexKeys(obj, left) ==
    IF left = {} THEN <<>>
    ELSE LET i == CHOOSE j \in left :
                      \A h \in left : DigitsLeq(obj[j].key, obj[h].key)
         IN <<obj[i]>> \o AscendingIndexKeys(obj, left \ {i})

IsStringKeyed(member) == ~IsArrayIndex(member.key)

Object_entries_InsertionOrder(obj) == obj

\* Object.entries(obj): the order of OrdinaryOwnPropertyKeys, array-index keys in
\* ascending numeric order, then the other keys in insertion order
Object_entries(obj) ==
    AscendingIndexKeys(obj, {i \in DOMAIN obj : IsArrayIndex(obj[i].key)})
        \o SelectSeq(obj, IsStringKeyed)

\* obj[key] is an own property of obj and is truthy (null is not)
HasOwn(obj, key) == \E i \in DOMAIN obj : obj[i].key = key /\ obj[i].value # JsonNull

\* obj[key]
Get(obj, key) == obj[CHOOSE i \in DOMAIN obj : obj[i].key = key].value

\* { ...data, key, type }
Ranking(data, key, type) ==
    [key |-> key, type |-> type, fullName |-> data.fullName,
     exactMatch |-> data.exactMatch, core |-> data.core, sjr |-> data.sjr]

Min(S) == CHOOSE x \in S : \A y \in S : x <= y

\* the test of the alias pass on one alias
aliasMatches_AnyLength(normalized, alias) ==
    LET aliasNorm == normalizeString(alias)
    IN isFullNameMatch(normalized, aliasNorm, FALSE)

aliasMatches(normalized, alias) ==
    LET aliasNorm == normalizeString(alias)
    IN Len(aliasNorm) >= MinAliasLength /\ isFullNameMatch(normalized, aliasNorm, FALSE)

\* the test of the conference pass and of the journal pass on one entry
entryMatches(normalized, data) ==
    LET fullNameNorm == normalizeString(data.fullName)
    IN fullNameNorm # <<>> /\ isFullNameMatch(normalized, fullNameNorm, data.exactMatch)

\* the alias pass over an index: the ranking of the first alias that matches
\* and whose canonical key is a conference or a journal, or None
aliasPass(index, normalized) ==
    LET aliases == Object_entries(index.aliases)
        hits == {i \in DOMAIN aliases :
                    /\ aliasMatches(normalized, aliases[i].key)
                    /\ \/ HasOwn(index.conferences, aliases[i].value)
                       \/ HasOwn(index.journals, aliases[i].value)}
    IN IF hits = {} THEN None
       ELSE LET canonical == aliases[Min(hits)].value
            IN IF HasOwn(index.conferences, canonical)
               THEN Ranking(Get(index.conferences, canonical), canonical, "conference")
               ELSE Ranking(Get(index.journals, canonical), canonical, "journal")

\* the conference pass (type "conference") or the journal pass (type "journal"):
\* the loop stops at the first entry that matches, or at the first entry whose
\* value is null, where data.fullName throws
entryPass(obj, type, normalized) ==
    LET entries == Object_entries(obj)
        stops == {i \in DOMAIN entries :
                     \/ entries[i].value = JsonNull
                     \/ entryMatches(normalized, entries[i].value)}
    IN IF stops = {} THEN None
       ELSE IF entries[Min(stops)].value = JsonNull THEN TypeError
       ELSE Ranking(entries[Min(stops)].value, entries[Min(stops)].key, type)

findRankingIn_ConferencesFirst(index, venueName) ==
    IF index = NullData \/ venueName = <<>> THEN None
    ELSE LET normalized == normalizeString(venueName)
             byConference == entryPass(index.conferences, "conference", normalized)
             byAlias == aliasPass(index, normalized)
         IN IF byConference # None THEN byConference
            ELSE IF byAlias # None THEN byAlias
            ELSE entryPass(index.journals, "journal", normalized)

\* findRanking where the first alias that matches ends the search, whether or
\* not its canonical key is a conference or a journal
findRankingIn_DanglingAliasEnds(index, venueName) ==
    IF index = NullData \/ venueName = <<>> THEN None
    ELSE LET normalized == normalizeString(venueName)
             aliases == Object_entries(index.aliases)
             matching == {i \in DOMAIN aliases : aliasMatches(normalized, aliases[i].key)}
             byConference == entryPass(index.conferences, "conference", normalized)
         IN IF matching # {}
            THEN IF \/ HasOwn(index.conferences, aliases[Min(matching)].value)
                    \/ HasOwn(index.journals, aliases[Min(matching)].value)
                 THEN aliasPass(index, normalized)
                 ELSE None
            ELSE IF byConference # None THEN byConference
            ELSE entryPass(index.journals, "journal", normalized)

\* findRanking over a given value of rankingsData
findRankingIn(index, venueName) ==
    IF index = NullData \/ venueName = <<>> THEN None
    ELSE LET normalized == normalizeString(venueName)
             byAlias == IF HasAliases(index) THEN aliasPass(index, normalized) ELSE None
             byConference == entryPass(index.conferences, "conference", normalized)
         IN IF byAlias # None THEN byAlias
            ELSE IF byConference # None THEN byConference
            ELSE entryPass(index.journals, "journal", normalized)

findRanking(venueName) == findRankingIn(rankingsData, venueName)

\* normalized.length below which findPrefixMatches returns []
MinPrefixLength == 15

\* seenKeys.has(key), seenKeys being the keys of the matches pushed so far
Seen(matches, key) == \E i \in DOMAIN matches : matches[i].key = key

\* the conference loop (type "conference") and the journal loop (type "journal")
\* of findPrefixMatches over the entries left
RECURSIVE prefixEntryLoop(_, _, _, _)
prefixEntryLoop(entries, type, normalized, matches) ==
    IF entries = <<>> THEN matches
    ELSE LET key == Head(entries).key
             data == Head(entries).value
             fullNameNorm == normalizeString(data.fullName)
             push == /\ Len(fullNameNorm) >= Len(normalized)
                     /\ startsWith(fullNameNorm, normalized)
                     /\ ~Seen(matches, key)
         IN prefixEntryLoop(Tail(entries), type, normalized,
                IF push THEN Append(matches, Ranking(data, key, type)) ELSE matches)

\* the alias loop without the test of seenKeys
RECURSIVE prefixAliasLoop_NoSeen(_, _, _, _)
prefixAliasLoop_NoSeen(index, aliases, normalized, matches) ==
    IF aliases = <<>> THEN matches
    ELSE LET canonical == Head(aliases).value
             aliasNorm == normalizeString(Head(aliases).key)
             push == /\ Len(aliasNorm) >= Len(normalized)
                     /\ startsWith(aliasNorm, normalized)
                     /\ \/ HasOwn(index.conferences, canonical)
                        \/ HasOwn(index.journals, canonical)
             data == IF HasOwn(index.conferences, canonical)
                     THEN Get(index.conferences, canonical)
                     ELSE Get(index.journals, canonical)
         IN prefixAliasLoop_NoSeen(index, Tail(aliases), normalized,
                IF push THEN Append(matches, Ranking(data, canonical, "undefined"))
                ELSE matches)

\* the alias loop of findPrefixMatches over the aliases left: the match pushed
\* is { key: canonical, ...data }, which has no type
RECURSIVE prefixAliasLoop(_, _, _, _)
prefixAliasLoop(index, aliases, normalized, matches) ==
    IF aliases = <<>> THEN matches
    ELSE LET canonical == Head(aliases).value
             aliasNorm == normalizeString(Head(aliases).key)
             push == /\ Len(aliasNorm) >= Len(normalized)
                     /\ startsWith(aliasNorm, normalized)
                     /\ ~Seen(matches, canonical)
                     /\ \/ HasOwn(index.conferences, canonical)
                        \/ HasOwn(index.journals, canonical)
             data == IF HasOwn(index.conferences, canonical)
                     THEN Get(index.conferences, canonical)
                     ELSE Get(index.journals, canonical)
         IN prefixAliasLoop(index, Tail(aliases), normalized,
                IF push THEN Append(matches, Ranking(data, canonical, "undefined"))
                ELSE matches)

\* findPrefixMatches without the test of the length of the candidate
findPrefixMatchesIn_AnyLength(index, truncatedVenue) ==
    IF index = NullData \/ truncatedVenue = <<>> THEN <<>>
    ELSE LET normalized == normalizeString(truncatedVenue)
         IN prefixAliasLoop(index, Object_entries(index.aliases), normalized,
                prefixEntryLoop(Object_entries(index.journals), "journal", normalized,
                    prefixEntryLoop(Object_entries(index.conferences), "conference",
                                    normalized, <<>>)))

\* findPrefixMatches over a given value of rankingsData
findPrefixMatchesIn(index, truncatedVenue) ==
    IF index = NullData \/ truncatedVenue = <<>> THEN <<>>
    ELSE LET normalized == normalizeString(truncatedVenue)
         IN IF Len(normalized) < MinPrefixLength THEN <<>>
            ELSE prefixAliasLoop(index,
                    IF HasAliases(index) THEN Object_entries(index.aliases) ELSE <<>>,
                    normalized,
                    prefixEntryLoop(Object_entries(index.journals), "journal", normalized,
                        prefixEntryLoop(Object_entries(index.conferences), "conference",
                                        normalized, <<>>)))

findPrefixMatches(truncatedVenue) == findPrefixMatchesIn(rankingsData, truncatedVenue)

-----------------------------------------------------------------------------
(* extractVenueFromAuthorLine *)

\* extractVenueFromAuthorLine's null
NoVenue == <<"null">>

IsDash(c) == c \in {"-", "ENDASH", "EMDASH"}

\* the last position of the run of characters of class P that starts at
\* position i of s (i - 1 when the run is empty)
RunEnd(s, i, P) ==
    i - 1 + Cardinality({k \in i..Len(s) : \A h \in i..k : s[h] \in P})

\* the first position of the run of characters of class P that ends at
\* position i of s (i + 1 when the run is empty)
RunStart(s, i, P) ==
    i + 1 - Cardinality({k \in 1..i : \A h \in k..i : s[h] \in P})

\* s from position i on
From(s, i) == SubSeq(s, i, Len(s))

\* s before position i
Before(s, i) == SubSeq(s, 1, i - 1)

\* s[i..] starts with exactly-at-least n digits: \d{n}
DigitsAt(s, i, n) ==
    i + n - 1 <= Len(s) /\ \A k \in i..(i + n - 1) : IsDigit(s[k])

\* s equals t when letter case is ignored (the flag i)
EqualsIgnoreCase(s, t) == toLowerCase(s) = toLowerCase(t)

StartsWithIgnoreCase(s, t) ==
    Len(t) <= Len(s) /\ EqualsIgnoreCase(SubSeq(s, 1, Len(t)), t)

\* /\s+[-–—]\s+/ matches s from position i: the position of its last character,
\* 0 when it does not match there
SeparatorEnd(s, i) ==
    IF i > Len(s) \/ ~IsSpace(s[i]) THEN 0
    ELSE LET d == RunEnd(s, i, SpaceSet) + 1
         IN IF d + 1 <= Len(s) /\ IsDash(s[d]) /\ IsSpace(s[d + 1])
            THEN RunEnd(s, d + 1, SpaceSet)
            ELSE 0

\* authorLineText.split(/\s+[-–—]\s+/)
RECURSIVE split(_)
split(s) ==
    LET starts == {i \in DOMAIN s : SeparatorEnd(s, i) > 0}
    IN IF starts = {} THEN <<s>>
       ELSE <<Before(s, Min(starts))>> \o split(From(s, SeparatorEnd(s, Min(starts)) + 1))

\* /^\d{4}$/.test(part)
IsYearOnly(part) == Len(part) = 4 /\ DigitsAt(part, 1, 4)

DomainFragments ==
    {<<".","c","o","m">>, <<".","o","r","g">>, <<".","e","d","u">>, <<".","n","e","t">>, <<".","i","o">>, <<".","g","o","v">>, <<".","a","c",".">>, <<".","c","o",".">>}

\* part.includes('.com') || ... || part.includes('.co.')
HasDomainFragment(part) == \E d \in DomainFragments : includes(part, d)

knownPublishers ==
    { <<"s","p","r","i","n","g","e","r">>,
      <<"e","l","s","e","v","i","e","r">>,
      <<"w","i","l","e","y">>,
      <<"m","d","p","i">>,
      <<"t","a","y","l","o","r"," ","&"," ","f","r","a","n","c","i","s">>,
      <<"o","x","f","o","r","d">>,
      <<"c","a","m","b","r","i","d","g","e">>,
      <<"m","i","t"," ","p","r","e","s","s">>,
      <<"s","c","i","e","n","c","e","d","i","r","e","c","t">>,
      <<"a","r","x","i","v">>,
      <<"s","s","r","n">>,
      <<"r","e","s","e","a","r","c","h","g","a","t","e">>,
      <<"a","c","a","d","e","m","i","a">> }

\* knownPublishers.some(pub => part.toLowerCase() === pub)
IsKnownPublisher(part) == toLowerCase(part) \in knownPublishers

\* part.replace(/^…\s*/, '')
StripLeadingEllipsis(part) ==
    IF part # <<>> /\ part[1] = "ELLIPSIS"
    THEN From(part, RunEnd(part, 2, SpaceSet) + 1)
    ELSE part

\* /,\s*\d{4}/ matches s at position i
CommaYearAt(s, i) ==
    /\ i <= Len(s) /\ s[i] = ","
    /\ DigitsAt(s, RunEnd(s, i + 1, SpaceSet) + 1, 4)

\* /…\s*(,\s*\d{4}.*)?$/ matches s at position e
TrailingEllipsisAt(s, e) ==
    /\ s[e] = "ELLIPSIS"
    /\ LET r == RunEnd(s, e + 1, SpaceSet) + 1
       IN r > Len(s) \/ CommaYearAt(s, r)

\* part.replace(/\s*…\s*(,\s*\d{4}.*)?$/, '')
StripTrailingEllipsis(part) ==
    LET es == {e \in DOMAIN part : TrailingEllipsisAt(part, e)}
    IN IF es = {} THEN part
       ELSE Before(part, RunStart(part, Min(es) - 1, SpaceSet))

\* part.replace(/,\s*\d{4}.*$/, '')
StripCommaYear(part) ==
    LET cs == {c \in DOMAIN part : CommaYearAt(part, c)}
    IN IF cs = {} THEN part ELSE Before(part, Min(cs))

\* part.replace(/\s+\d{4}$/, '')
StripTrailingYear(part) ==
    LET n == Len(part)
    IN IF n >= 5 /\ DigitsAt(part, n - 3, 4) /\ IsSpace(part[n - 4])
       THEN Before(part, RunStart(part, n - 4, SpaceSet))
       ELSE part

\* /\s+\d+\s*\(\d+\)/ matches s at position i
VolumeIssueAt(s, i) ==
    /\ IsSpace(s[i])
    /\ LET d == RunEnd(s, i, SpaceSet) + 1
           p == RunEnd(s, RunEnd(s, d, DigitSet) + 1, SpaceSet) + 1
           q == RunEnd(s, p + 1, DigitSet) + 1
       IN /\ DigitsAt(s, d, 1)
          /\ p <= Len(s) /\ s[p] = "("
          /\ DigitsAt(s, p + 1, 1)
          /\ q <= Len(s) /\ s[q] = ")"

\* part.replace(/\s+\d+\s*\(\d+\).*$/, '')
StripVolumeIssue(part) ==
    LET vs == {i \in DOMAIN part : VolumeIssueAt(part, i)}
    IN IF vs = {} THEN part ELSE Before(part, Min(vs))

\* part.replace(/,?\s*\d+-\d+\s*$/, '')
StripPageNumbers(part) ==
    LET e == RunStart(part, Len(part), SpaceSet) - 1   \* the last digit of \d+-\d+
        b == RunStart(part, e, DigitSet)               \* the first digit after the hyphen
        h == b - 1                                    \* the hyphen
        a == RunStart(part, h - 1, DigitSet)           \* the first digit of the first number
        w == RunStart(part, a - 1, SpaceSet)           \* the whitespace before it
        p == IF w >= 2 /\ part[w - 1] = "," THEN w - 1 ELSE w
    IN IF /\ e >= 1 /\ b <= e
          /\ h >= 1 /\ part[h] = "-"
          /\ a <= h - 1
       THEN Before(part, p)
       ELSE part

\* part.replace(/,\s*$/, '')
StripTrailingComma(part) ==
    LET e == RunStart(part, Len(part), SpaceSet) - 1
    IN IF e >= 1 /\ part[e] = "," THEN Before(part, e) ELSE part

ProceedingsOf == <<"P","r","o","c","e","e","d","i","n","g","s"," ","o","f"," ">>

\* part.replace(/^Proceedings of (the\s+)?/i, '')
StripProceedingsOf(part) ==
    IF ~StartsWithIgnoreCase(part, ProceedingsOf) THEN part
    ELSE LET rest == From(part, Len(ProceedingsOf) + 1)
         IN IF StartsWithIgnoreCase(rest, <<"t","h","e">>)
               /\ Len(rest) >= 4 /\ IsSpace(rest[4])
            THEN From(rest, RunEnd(rest, 4, SpaceSet) + 1)
            ELSE rest

\* the last position of /\d+(st|nd|rd|th)\s+/i matched at position i of s, 0
\* when it does not match there
OrdinalEnd(s, i) ==
    LET x == RunEnd(s, i, DigitSet) + 1     \* the suffix
    IN IF /\ DigitsAt(s, i, 1)
          /\ x + 2 <= Len(s)
          /\ toLowerCase(SubSeq(s, x, x + 1))
                \in {<<"s","t">>, <<"n","d">>, <<"r","d">>, <<"t","h">>}
          /\ IsSpace(s[x + 2])
       THEN RunEnd(s, x + 2, SpaceSet)
       ELSE 0

\* the alternatives of (ACM\/IEEE|IEEE\/ACM|ACM|IEEE), in order
Organizations ==
    <<<<"A","C","M","/","I","E","E","E">>,
       <<"I","E","E","E","/","A","C","M">>,
       <<"A","C","M">>,
       <<"I","E","E","E">>>>

\* part.replace(/^(ACM\/IEEE|IEEE\/ACM|ACM|IEEE)\s+\d+(st|nd|rd|th)\s+/i, '')
StripOrganizationOrdinal(part) ==
    LET fits == {k \in DOMAIN Organizations :
                    /\ StartsWithIgnoreCase(part, Organizations[k])
                    /\ Len(part) > Len(Organizations[k])
                    /\ IsSpace(part[Len(Organizations[k]) + 1])
                    /\ OrdinalEnd(part,
                          RunEnd(part, Len(Organizations[k]) + 1, SpaceSet) + 1) > 0}
    IN IF fits = {} THEN part
       ELSE From(part, OrdinalEnd(part,
                   RunEnd(part, Len(Organizations[Min(fits)]) + 1, SpaceSet) + 1) + 1)

\* part.replace(/^\d+(st|nd|rd|th)\s+/i, '')
StripNumericOrdinal(part) ==
    IF part # <<>> /\ OrdinalEnd(part, 1) > 0
    THEN From(part, OrdinalEnd(part, 1) + 1)
    ELSE part

\* the alternatives of the written-ordinal pattern
WrittenOrdinals ==
    { <<"F","i","r","s","t">>,
      <<"S","e","c","o","n","d">>,
      <<"T","h","i","r","d">>,
      <<"F","o","u","r","t","h">>,
      <<"F","i","f","t","h">>,
      <<"S","i","x","t","h">>,
      <<"S","e","v","e","n","t","h">>,
      <<"E","i","g","h","t","h">>,
      <<"N","i","n","t","h">>,
      <<"T","e","n","t","h">>,
      <<"E","l","e","v","e","n","t","h">>,
      <<"T","w","e","l","f","t","h">>,
      <<"T","h","i","r","t","e","e","n","t","h">>,
      <<"F","o","u","r","t","e","e","n","t","h">>,
      <<"F","i","f","t","e","e","n","t","h">>,
      <<"S","i","x","t","e","e","n","t","h">>,
      <<"S","e","v","e","n","t","e","e","n","t","h">>,
      <<"E","i","g","h","t","e","e","n","t","h">>,
      <<"N","i","n","e","t","e","e","n","t","h">>,
      <<"T","w","e","n","t","i","e","t","h">>,
      <<"T","w","e","n","t","y","-","F","i","r","s","t">>,
      <<"T","w","e","n","t","y","-","S","e","c","o","n","d">>,
      <<"T","w","e","n","t","y","-","T","h","i","r","d">>,
      <<"T","w","e","n","t","y","-","F","o","u","r","t","h">>,
      <<"T","w","e","n","t","y","-","F","i","f","t","h">>,
      <<"T","w","e","n","t","y","-","S","i","x","t","h">>,
      <<"T","w","e","n","t","y","-","S","e","v","e","n","t","h">>,
      <<"T","w","e","n","t","y","-","E","i","g","h","t","h">>,
      <<"T","w","e","n","t","y","-","N","i","n","t","h">>,
      <<"T","h","i","r","t","i","e","t","h">>,
      <<"T","h","i","r","t","y","-","F","i","r","s","t">>,
      <<"T","h","i","r","t","y","-","S","e","c","o","n","d">>,
      <<"T","h","i","r","t","y","-","T","h","i","r","d">>,
      <<"T","h","i","r","t","y","-","F","o","u","r","t","h">>,
      <<"T","h","i","r","t","y","-","F","i","f","t","h">>,
      <<"T","h","i","r","t","y","-","S","i","x","t","h">>,
      <<"T","h","i","r","t","y","-","S","e","v","e","n","t","h">>,
      <<"T","h","i","r","t","y","-","E","i","g","h","t","h">>,
      <<"T","h","i","r","t","y","-","N","i","n","t","h">>,
      <<"F","o","r","t","i","e","t","h">>,
      <<"F","o","r","t","y","-","F","i","r","s","t">>,
      <<"F","o","r","t","y","-","S","e","c","o","n","d">>,
      <<"F","o","r","t","y","-","T","h","i","r","d">>,
      <<"F","o","r","t","y","-","F","o","u","r","t","h">>,
      <<"F","o","r","t","y","-","F","i","f","t","h">> }

\* part.replace(/^(First|Second|...|Forty-Fifth)\s+/i, '')
StripWrittenOrdinal(part) ==
    LET fits == {w \in WrittenOrdinals :
                    /\ StartsWithIgnoreCase(part, w)
                    /\ Len(part) > Len(w)
                    /\ IsSpace(part[Len(w) + 1])}
    IN IF fits = {} THEN part
       ELSE LET w == CHOOSE w \in fits : TRUE
            IN From(part, RunEnd(part, Len(w) + 1, SpaceSet) + 1)

\* cleaned.length from which a cleaned part is returned
MinVenueLength == 3

\* the number of cleanup rules
CleanupRules == 11

\* the cleanup with 'Proceedings of' removed after the ordinals
ApplyRule_ProceedingsLast(k, part) ==
    CASE k = 1 -> trim(StripLeadingEllipsis(part))
      [] k = 2 -> trim(StripTrailingEllipsis(part))
      [] k = 3 -> trim(StripCommaYear(part))
      [] k = 4 -> trim(StripTrailingYear(part))
      [] k = 5 -> trim(StripVolumeIssue(part))
      [] k = 6 -> trim(StripPageNumbers(part))
      [] k = 7 -> trim(StripTrailingComma(part))
      [] k = 8 -> trim(StripOrganizationOrdinal(part))
      [] k = 9 -> trim(StripNumericOrdinal(part))
      [] k = 10 -> trim(StripWrittenOrdinal(part))
      [] k = 11 -> trim(StripProceedingsOf(part))

\* rule k of the cleanup, followed by trim() as in the source
ApplyRule(k, part) ==
    CASE k = 1 -> trim(StripLeadingEllipsis(part))
      [] k = 2 -> trim(StripTrailingEllipsis(part))
      [] k = 3 -> trim(StripCommaYear(part))
      [] k = 4 -> trim(StripTrailingYear(part))
      [] k = 5 -> trim(StripVolumeIssue(part))
      [] k = 6 -> trim(StripPageNumbers(part))
      [] k = 7 -> trim(StripTrailingComma(part))
      [] k = 8 -> trim(StripProceedingsOf(part))
      [] k = 9 -> trim(StripOrganizationOrdinal(part))
      [] k = 10 -> trim(StripNumericOrdinal(part))
      [] k = 11 -> trim(StripWrittenOrdinal(part))

RECURSIVE CleanFrom(_, _)
\* the rules from rule k on, in the order of the source
CleanFrom(k, part) ==
    IF k > CleanupRules THEN part ELSE CleanFrom(k + 1, ApplyRule(k, part))

\* the cleanup of one part
CleanPart(part) == CleanFrom(1, part)

\* the skip tests without the publisher tests
IsSkipped_YearsOnly(part) == IsYearOnly(part)

\* the tests that skip a part
IsSkipped(part) ==
    IsYearOnly(part) \/ HasDomainFragment(part) \/ IsKnownPublisher(part)

\* extractVenueFromAuthorLine with the loop starting at the author segment
extractVenueFromAuthorLine_FromAuthors(authorLineText) ==
    IF authorLineText = <<>> THEN NoVenue
    ELSE LET parts == split(authorLineText)
             good == {i \in 1..Len(parts) :
                         /\ ~IsSkipped(trim(parts[i]))
                         /\ Len(CleanPart(trim(parts[i]))) >= MinVenueLength}
         IN IF Len(parts) < 2 \/ good = {} THEN NoVenue
            ELSE CleanPart(trim(parts[Min(good)]))

extractVenueFromAuthorLine(authorLineText) ==
    IF authorLineText = <<>> THEN NoVenue
    ELSE LET parts == split(authorLineText)
             good == {i \in 2..Len(parts) :
                         /\ ~IsSkipped(trim(parts[i]))
                         /\ Len(CleanPart(trim(parts[i]))) >= MinVenueLength}
         IN IF Len(parts) < 2 \/ good = {} THEN NoVenue
            ELSE CleanPart(trim(parts[Min(good)]))


-----------------------------------------------------------------------------
(* Inputs: venue names, index entries, payloads *)

W_International == <<"I","n","t","e","r","n","a","t","i","o","n","a","l">>
W_Conference == <<"C","o","n","f","e","r","e","n","c","e">>
W_on == <<"o","n">>
W_CyberPhysical == <<"C","y","b","e","r","-","P","h","y","s","i","c","a","l">>
W_Systems == <<"S","y","s","t","e","m","s">>
W_Networks == <<"N","e","t","w","o","r","k","s">>
W_Neural == <<"N","e","u","r","a","l">>
W_Computer == <<"C","o","m","p","u","t","e","r">>
W_and == <<"a","n","d">>
W_ISDN == <<"I","S","D","N">>
W_ACM == <<"A","C","M">>
W_Transactions == <<"T","r","a","n","s","a","c","t","i","o","n","s">>
W_CPS == <<"C","P","S">>
W_Week == <<"W","e","e","k">>
W_Unknown == <<"U","n","k","n","o","w","n">>
W_Venue == <<"V","e","n","u","e">>
W_Workshop == <<"W","o","r","k","s","h","o","p">>
W_Proceedings == <<"P","r","o","c","e","e","d","i","n","g","s">>
W_of == <<"o","f">>
W_the == <<"t","h","e">>
W_IEEE == <<"I","E","E","E">>
W_Symposium == <<"S","y","m","p","o","s","i","u","m">>
W_Theory == <<"T","h","e","o","r","y">>
W_Computing == <<"C","o","m","p","u","t","i","n","g">>

SP == <<" ">>

\* the words of ws joined by single spaces
RECURSIVE Words(_)
Words(ws) ==
    IF ws = <<>> THEN <<>>
    ELSE IF Len(ws) = 1 THEN ws[1]
    ELSE ws[1] \o SP \o Words(Tail(ws))

N_ICCPS == Words(<<W_International, W_Conference, W_on, W_CyberPhysical, W_Systems>>)
N_CPS == Words(<<W_CyberPhysical, W_Systems>>)
N_TCPS == Words(<<W_ACM, W_Transactions, W_on, W_CyberPhysical, W_Systems>>)
N_Networks == W_Networks
N_NeuralNetworks == Words(<<W_Neural, W_Networks>>)
N_ComputerNetworks == Words(<<W_Computer, W_Networks>>)
N_ComputerNetworksISDN ==
    Words(<<W_Computer, W_Networks, W_and, W_ISDN, W_Systems>>)
N_CPSWeek == Words(<<W_CPS, W_Week>>)
N_Unknown == Words(<<W_Unknown, W_Venue, W_Workshop>>)

K_ICCPS == <<"I","C","C","P","S">>
K_TCPS == <<"T","C","P","S">>
K_NETW == <<"N","E","T","W">>
K_NN == <<"N","N">>
K_COMNET == <<"C","O","M","N","E","T">>
K_7 == <<"7">>

Data(fullName, exactMatch, core, sjr) ==
    [fullName |-> fullName, exactMatch |-> exactMatch, core |-> core, sjr |-> sjr]

Member(key, value) == [key |-> key, value |-> value]

\* members the conferences collection of a payload is drawn from
ConferencePool ==
    { Member(K_ICCPS, Data(N_ICCPS, FALSE, "A", "")),
      Member(K_ICCPS, Data(N_ICCPS, TRUE, "A", "")),
      Member(K_7, Data(N_CPS, FALSE, "B", "")),
      Member(K_NETW, Data(N_Networks, FALSE, "C", "")) }

\* members the journals collection of a payload is drawn from
JournalPool ==
    { Member(K_TCPS, Data(N_TCPS, FALSE, "", "Q1")),
      Member(K_COMNET, Data(N_ComputerNetworks, TRUE, "", "Q2")) }

\* members the aliases collection of a payload is drawn from
AliasPool ==
    { Member(N_CPS, K_TCPS),
      Member(N_ICCPS, K_7),
      Member(N_CPSWeek, K_ICCPS) }

\* most members of the conferences and of the journals collection of a payload
MaxEntries == 2
\* most members of the aliases collection of a payload
MaxAliases == 2

\* the JSON objects of at most n members of pool, keys distinct
ObjectsOver(pool, n) ==
    LET Seqs == UNION {[1..k -> pool] : k \in 0..n}
    IN {o \in Seqs : \A i, j \in DOMAIN o : i # j => o[i].key # o[j].key}

Payload(conferences, journals, aliases) ==
    [conferences |-> conferences, journals |-> journals, aliases |-> aliases]

\* the configuration payloads data/core-rankings.json is drawn from
Payloads ==
    { Payload(c, j, a) :
        c \in ObjectsOver(ConferencePool, MaxEntries),
        j \in ObjectsOver(JournalPool, MaxEntries),
        a \in ObjectsOver(AliasPool, MaxAliases) }

\* the prefixes of s
Prefixes(s) == {SubSeq(s, 1, n) : n \in 0..Len(s)}

VenueNames ==
    { N_ICCPS, N_CPS, N_TCPS, N_Networks, N_NeuralNetworks, N_ComputerNetworks,
      N_ComputerNetworksISDN, N_CPSWeek, N_Unknown,
      Words(<<W_Conference, W_on, W_CyberPhysical>>) }

\* the venue names findRanking is called with: full names, and names cut short
\* on either side of the 25 characters of the reverse check
Candidates ==
    VenueNames
        \cup { Words(<<W_International, W_Conference>>),
               Words(<<W_International, W_Conference, W_on, W_CyberPhysical>>),
               Words(<<W_ACM, W_Transactions, W_on>>) \o <<" ","C","y","b","e">>,
               Words(<<W_ACM, W_Transactions, W_on>>) \o <<" ","C","y","b","e","r">>,
               <<>> }

\* the normalized venue names isFullNameMatch is called with as detected
Detecteds ==
    {normalizeString(c) :
        c \in VenueNames \cup Prefixes(N_ICCPS) \cup Prefixes(N_TCPS)}

\* normalized full names and aliases isFullNameMatch is called with as target
Targets ==
    {normalizeString(m.value.fullName) : m \in ConferencePool \cup JournalPool}
        \cup {normalizeString(m.key) : m \in AliasPool} \cup {<<>>}

-----------------------------------------------------------------------------
(* Specifications of the pure functions: Init draws the arguments, the one
   action applies the function *)

NoCall == [fn |-> "none"]

PageIdle ==
    /\ results = <<>>
    /\ lastFetchTime = 0
    /\ now = 0
    /\ pc = "start"
    /\ timers = 0
    /\ originalOrder = <<>>
    /\ currentSort = "default"

InitFullName ==
    /\ rankingsData = NullData
    /\ \E detected \in Detecteds, target \in Targets, exactMatch \in BOOLEAN :
          call = [fn |-> "isFullNameMatch", done |-> FALSE,
                  detected |-> detected, target |-> target, exactMatch |-> exactMatch,
                  result |-> FALSE, resultContentJs |-> FALSE]
    /\ PageIdle

\* the call of isFullNameMatch, in the current copy and in the copies of content.js
CallIsFullNameMatch ==
    /\ call.fn = "isFullNameMatch" /\ ~call.done
    /\ call' = [call EXCEPT
                  !.done = TRUE,
                  !.result = isFullNameMatch(call.detected, call.target, call.exactMatch),
                  !.resultContentJs =
                      isFullNameMatchContentJs(call.detected, call.target, call.exactMatch)]
    /\ UNCHANGED <<rankingsData, pageVars>>

NextFullName == CallIsFullNameMatch

SpecFullName == InitFullName /\ [][NextFullName]_vars

InitMatch ==
    /\ rankingsData \in Payloads
    /\ \E venueName \in Candidates :
          call = [fn |-> "findRanking", done |-> FALSE,
                  venueName |-> venueName, result |-> None]
    /\ PageIdle

\* the call of findRanking
CallFindRanking ==
    /\ call.fn = "findRanking" /\ ~call.done
    /\ call' = [call EXCEPT !.done = TRUE, !.result = findRanking(call.venueName)]
    /\ UNCHANGED <<rankingsData, pageVars>>

NextMatch == CallFindRanking

SpecMatch == InitMatch /\ [][NextMatch]_vars

N_ICCPSShort == Words(<<W_International, W_Conference, W_on, W_CPS>>)
N_IntlConference == Words(<<W_International, W_Conference>>)
N_ICCN == Words(<<W_International, W_Conference, W_on, W_Networks>>)

\* members the journals collection is drawn from when findPrefixMatches is
\* called: a journal may have the key of a conference
PrefixJournalPool ==
    JournalPool \cup { Member(K_ICCPS, Data(N_ICCPS, FALSE, "", "Q3")) }

\* members the aliases collection is drawn from when findPrefixMatches is called
PrefixAliasPool ==
    { Member(N_ICCPS, K_7),
      Member(N_ICCPSShort, K_ICCPS),
      Member(N_ICCN, K_ICCPS) }

PrefixPayloads ==
    { Payload(c, j, a) :
        c \in ObjectsOver(ConferencePool, MaxEntries),
        j \in ObjectsOver(PrefixJournalPool, MaxEntries),
        a \in ObjectsOver(PrefixAliasPool, MaxAliases) }

\* the truncated venue names findPrefixMatches is called with, on either side
\* of the 15 characters it asks for
TruncatedVenues ==
    { N_IntlConference, W_International, W_CyberPhysical,
      Words(<<W_ACM, W_Transactions, W_on>>),
      SubSeq(N_ICCPS, 1, 15), SubSeq(N_ICCPS, 1, 16), <<>> }

InitPrefix ==
    /\ rankingsData \in PrefixPayloads
    /\ \E truncatedVenue \in TruncatedVenues :
          call = [fn |-> "findPrefixMatches", done |-> FALSE,
                  truncatedVenue |-> truncatedVenue, result |-> <<>>]
    /\ PageIdle

\* the call of findPrefixMatches
CallFindPrefixMatches ==
    /\ call.fn = "findPrefixMatches" /\ ~call.done
    /\ call' = [call EXCEPT !.done = TRUE,
                            !.result = findPrefixMatches(call.truncatedVenue)]
    /\ UNCHANGED <<rankingsData, pageVars>>

NextPrefix == CallFindPrefixMatches

SpecPrefix == InitPrefix /\ [][NextPrefix]_vars

P_Authors ==
    <<"J"," ","S","m","i","t","h",","," ","A"," ","D","o","e">>
P_Year ==
    <<"2","0","2","0">>
P_Domain ==
    <<"a","c","m",".","o","r","g">>
P_Publisher ==
    <<"S","p","r","i","n","g","e","r">>
P_Short ==
    <<"A","I">>
P_JournalYear ==
    <<"N","a","t","u","r","e",","," ","2","0","2","0">>
P_VolumePages ==
    <<"N","e","u","r","a","l"," ","N","e","t","w","o","r","k","s"," ","1","2"," ","(","3",")",
      ","," ","4","5","-","6","7">>

\* a publisher and a year followed by the year of publication
P_PublisherYear ==
    <<"S","p","r","i","n","g","e","r",","," ","2","0","2","1">>
P_YearYear ==
    <<"2","0","2","0",","," ","2","0","2","1">>

\* the parts the author lines are put together from
PartPool ==
    { P_Authors, P_Year, P_Domain, P_Publisher, P_Short, P_JournalYear,
      P_VolumePages }

\* most parts of an author line
MaxParts == 3

Separator == <<" ", "-", " ">>

\* the parts of ps joined by the separator
RECURSIVE JoinParts(_)
JoinParts(ps) ==
    IF Len(ps) = 1 THEN ps[1] ELSE ps[1] \o Separator \o JoinParts(Tail(ps))

O_ACMIEEE == <<"A","C","M","/","I","E","E","E">>
O_IEEEACM == <<"I","E","E","E","/","A","C","M">>
D_1st == <<"1","s","t">>
D_2nd == <<"2","n","d">>
D_3rd == <<"3","r","d">>
D_16th == <<"1","6","t","h">>

OrganizationNames == { O_ACMIEEE, O_IEEEACM, W_ACM, W_IEEE }
NumericOrdinals == { D_1st, D_2nd, D_3rd, D_16th }
N_ICCP == Words(<<W_International, W_Conference, W_on, W_CyberPhysical>>)
N_STOC == Words(<<W_Symposium, W_on, W_Theory, W_of, W_Computing>>)
ConferenceNames == { N_ICCP, N_STOC }

\* 'J Smith - Proceedings of the <organization> <ordinal> <name>, 2020 - acm.org'
RuleChainLine(organization, ordinal, name) ==
    JoinParts(<<<<"J"," ","S","m","i","t","h">>,
                Words(<<W_Proceedings, W_of, W_the, organization, ordinal, name>>)
                    \o <<",", " ">> \o P_Year,
                P_Domain>>)

\* the author lines extractVenueFromAuthorLine is called with
AuthorLineTexts ==
    {JoinParts(ps) : ps \in UNION {[1..k -> PartPool] : k \in 1..MaxParts}}
        \cup {RuleChainLine(o, d, n) :
                 o \in OrganizationNames, d \in NumericOrdinals, n \in ConferenceNames}
        \cup {JoinParts(<<P_Authors, p, P_Domain>>) : p \in {P_PublisherYear, P_YearYear}}
        \cup {<<>>}

InitExtract ==
    /\ rankingsData = NullData
    /\ \E authorLineText \in AuthorLineTexts :
          call = [fn |-> "extractVenueFromAuthorLine", done |-> FALSE,
                  authorLineText |-> authorLineText, result |-> NoVenue]
    /\ PageIdle

\* the call of extractVenueFromAuthorLine
CallExtractVenueFromAuthorLine ==
    /\ call.fn = "extractVenueFromAuthorLine" /\ ~call.done
    /\ call' = [call EXCEPT !.done = TRUE,
                            !.result = extractVenueFromAuthorLine(call.authorLineText)]
    /\ UNCHANGED <<rankingsData, pageVars>>

NextExtract == CallExtractVenueFromAuthorLine

SpecExtract == InitExtract /\ [][NextExtract]_vars

\* the characters the strings given to normalizeString are made of: letters of
\* both cases, a digit, whitespace and punctuation
InputChars == {"a", "Z", "7", " ", "NBSP", "-"}

\* most characters of a string given to normalizeString
MaxLength == 5

InitNormalize ==
    /\ rankingsData = NullData
    /\ \E str \in UNION {[1..k -> InputChars] : k \in 0..MaxLength} :
          call = [fn |-> "normalizeString", done |-> FALSE, str |-> str,
                  result |-> <<>>, again |-> <<>>]
    /\ PageIdle

\* normalizeString(str), and normalizeString of what it returned
CallNormalizeString ==
    /\ call.fn = "normalizeString" /\ ~call.done
    /\ call' = [call EXCEPT !.done = TRUE,
                            !.result = normalizeString(call.str),
                            !.again = normalizeString(normalizeString(call.str))]
    /\ UNCHANGED <<rankingsData, pageVars>>

NextNormalize == CallNormalizeString

SpecNormalize == InitNormalize /\ [][NextNormalize]_vars

-----------------------------------------------------------------------------
(* The search page: results, badges, the lazy lookup *)

FETCH_COOLDOWN == 1000

\* the elements the script appends to a result's author line
Badge(ranking) == [kind |-> "badge", ranking |-> ranking]
Button(label, disabled, title) ==
    [kind |-> "button", label |-> label, disabled |-> disabled, title |-> title]
NotRankedSpan(venueName) == [kind |-> "notRanked", venue |-> venueName]

\* createFetchButton: the "?" button
FetchButton == Button("?", FALSE, "Click to lookup venue ranking")

\* result.querySelector of one of the three classes of the script
HasChild(r, kind) == \E i \in DOMAIN r.children : r.children[i].kind = kind

TitleBOOK == <<"[","B","O","O","K","]">>
TitleBook == <<"[","B","o","o","k","]">>
Titlebook == <<"[","b","o","o","k","]">>

\* the title test of injectBadges
IsBookTitle(title) ==
    LET titleText == trim(title)
    IN \/ startsWith(titleText, TitleBOOK)
       \/ startsWith(titleText, TitleBook)
       \/ startsWith(titleText, Titlebook)

\* authorLine.appendChild(element), with the branch of injectBadges that did it
Annotate(r, element, path) ==
    [r EXCEPT !.children = Append(@, element), !.via = path]

Line_Proceedings ==
    <<"J"," ","S","m","i","t","h"," ","-"," ","P","r","o","c","e","e","d","i","n","g","s"," ","o",
      "f"," ","t","h","e"," ","A","C","M","/","I","E","E","E"," ","1","6","t","h"," ","I","n","t",
      "e","r","n","a","t","i","o","n","a","l"," ","C","o","n","f","e","r","e","n","c","e"," ","o",
      "n"," ","C","y","b","e","r","-","P","h","y","s","i","c","a","l",","," ","2","0","2","0"," ",
      "-"," ","a","c","m",".","o","r","g">>
Line_TruncatedShort ==
    <<"J"," ","S","m","i","t","h",","," ","A"," ","D","o","e","ELLIPSIS"," ","-"," ","I","n","t","e",
      "r","n","a","t","i","o","n","a","l"," ","C","o","n","f","e","r","e","n","c","e"," ","ELLIPSIS",
      ","," ","2","0","2","0"," ","-"," ","a","c","m",".","o","r","g">>
Line_TruncatedAuthors ==
    <<"J"," ","S","m","i","t","h",","," ","A"," ","D","o","e","ELLIPSIS"," ","-"," ","C","y","b","e",
      "r","-","P","h","y","s","i","c","a","l"," ","S","y","s","t","e","m","s",","," ","2","0","2",
      "1"," ","-"," ","S","p","r","i","n","g","e","r">>
Line_ShortPrefix ==
    <<"A"," ","D","o","e"," ","-"," ","I","n","t","e","r","n","a","t","i","o","n","a","l"," ","C",
      "o","n","f","e","r","e","n","c","e",","," ","2","0","2","0"," ","-"," ","a","c","m",".","o",
      "r","g">>
Line_NoVenue ==
    <<"A"," ","D","o","e"," ","-"," ","2","0","2","0"," ","-"," ","s","p","r","i","n","g","e","r",
      ".","c","o","m">>

CitedBy == <<"C","i","t","e","d"," ","b","y"," ">>

TitleArticle == W_CyberPhysical \o SP \o W_Systems
TitleOfBook == TitleBOOK \o SP \o W_Networks

\* no response yet
NoResponse == [outcome |-> "none", italics |-> <<>>]

\* no data-gs-orderer-original-index attribute, no style.order
Unset == -1

\* the text nodes of the pages, by name: titles and author lines
Texts ==
    [article |-> TitleArticle,
     book |-> TitleOfBook,
     proceedings |-> Line_Proceedings,
     truncatedShort |-> Line_TruncatedShort,
     truncatedAuthors |-> Line_TruncatedAuthors,
     shortPrefix |-> Line_ShortPrefix,
     noVenue |-> Line_NoVenue,
     citedBy12 |-> CitedBy \o <<"1","2">>,
     citedBy3 |-> CitedBy \o <<"3">>,
     citedBy7 |-> CitedBy \o <<"7">>,
     related |-> <<"R","e","l","a","t","e","d"," ","a","r","t","i","c","l","e","s">>,
     versions |-> <<"A","l","l"," ","1","2"," ","v","e","r","s","i","o","n","s">>,
     none |-> <<>>]

\* node.textContent
textContent(node) == Texts[node]

\* a result element as Scholar renders it: nothing appended, no fetch in flight;
\* title and authorLine name its text nodes, links those of the links under it
Result(title, hasAuthorLine, authorLine, articleId, links) ==
    [title |-> title, hasAuthorLine |-> hasAuthorLine, authorLine |-> authorLine,
     articleId |-> articleId, links |-> links,
     originalIndex |-> Unset, order |-> Unset,
     children |-> <<>>, inflight |-> FALSE,
     via |-> "none", response |-> NoResponse]

\* the results a page is made of
ResultPool ==
    { Result("article", TRUE, "proceedings", TRUE, <<"citedBy12", "related">>),
      Result("article", TRUE, "truncatedShort", TRUE, <<"related", "citedBy3">>),
      Result("article", TRUE, "truncatedAuthors", TRUE, <<"citedBy12">>),
      Result("article", TRUE, "shortPrefix", TRUE, <<"related", "versions">>),
      Result("article", TRUE, "noVenue", FALSE, <<"citedBy7", "versions">>),
      Result("book", TRUE, "proceedings", TRUE, <<"citedBy3">>),
      Result("article", FALSE, "none", TRUE, <<>>) }

M_ICCPS == Member(K_ICCPS, Data(N_ICCPS, FALSE, "A", ""))
M_7 == Member(K_7, Data(N_CPS, FALSE, "B", ""))
M_TCPS == Member(K_TCPS, Data(N_TCPS, FALSE, "", "Q1"))

\* the payloads the page is loaded with
PagePayloads ==
    { Payload(<<M_ICCPS>>, <<>>, <<>>),
      Payload(<<M_ICCPS, M_7>>, <<M_TCPS>>, <<Member(N_ICCPS, K_7)>>),
      Payload(<<M_7>>, <<M_TCPS>>, <<Member(N_ICCPS, K_7)>>) }

\* what the index is after a failed load
EmptyData == Payload(<<>>, <<>>, <<>>)

\* the italic spans of a citation popup
ItalicsPool ==
    { <<<<"V","o","l">>>>,
      <<<<"4","2">>, SP \o N_ICCPS \o SP>>,
      <<N_Unknown>> }

\* how a fetch of the citation popup settles
Responses ==
    { [outcome |-> "error", italics |-> <<>>] }
        \cup { [outcome |-> "ok", italics |-> i] : i \in ItalicsPool }

\* the author lines of the pool
AuthorLines == {r.authorLine : r \in ResultPool}

\* extractVenueFromAuthorLine on the text of each author line of the pool,
\* computed once
extractedVenue ==
    [authorLine \in AuthorLines |-> extractVenueFromAuthorLine(textContent(authorLine))]

resolveVenue_NoPrefixStep(r, venueName, hasTruncation) ==
    IF venueName = NoVenue
    THEN Annotate(r, FetchButton, "noVenue")
    ELSE LET exactRanking == findRanking(venueName)
         IN IF exactRanking # None
            THEN Annotate(r, Badge(exactRanking), "exact")
            ELSE Annotate(r, FetchButton, "fallback")

resolveVenue_PrefixFirst(r, venueName, hasTruncation) ==
    IF venueName = NoVenue
    THEN Annotate(r, FetchButton, "noVenue")
    ELSE LET exactRanking == findRanking(venueName)
         IN IF hasTruncation /\ Len(findPrefixMatches(venueName)) = 1
            THEN Annotate(r, Badge(findPrefixMatches(venueName)[1]), "prefix")
            ELSE IF exactRanking # None
                 THEN Annotate(r, Badge(exactRanking), "exact")
                 ELSE Annotate(r, FetchButton, "fallback")

\* the callback of results.forEach in injectBadges from the extracted venue
\* on: no venue, exact match, unique prefix match of a truncated line, or the
\* lookup button
resolveVenue(r, venueName, hasTruncation) ==
    IF venueName = NoVenue
    THEN Annotate(r, FetchButton, "noVenue")
    ELSE LET exactRanking == findRanking(venueName)
         IN IF exactRanking # None
            THEN Annotate(r, Badge(exactRanking), "exact")
            ELSE IF hasTruncation /\ Len(findPrefixMatches(venueName)) = 1
                 THEN Annotate(r, Badge(findPrefixMatches(venueName)[1]),
                               "prefix")
                 ELSE Annotate(r, FetchButton, "fallback")

\* the callback of injectBadges without the three tests that skip a result
\* already processed
injectBadgesOn_NoSkip(r) ==
    IF IsBookTitle(textContent(r.title)) THEN r
    ELSE IF ~r.hasAuthorLine THEN r
    ELSE resolveVenue(r, extractedVenue[r.authorLine],
                      includes(textContent(r.authorLine), <<"ELLIPSIS">>))

\* the callback of results.forEach in injectBadges, on one result
injectBadgesOn(r) ==
    IF HasChild(r, "badge") \/ HasChild(r, "button") \/ HasChild(r, "notRanked") THEN r
    ELSE IF IsBookTitle(textContent(r.title)) THEN r
    ELSE IF ~r.hasAuthorLine THEN r
    ELSE resolveVenue(r, extractedVenue[r.authorLine],
                      includes(textContent(r.authorLine), <<"ELLIPSIS">>))

\* injectBadges: every result of the page, in document order
injectBadges(rs) ==
    IF rankingsData = NullData THEN rs
    ELSE [i \in DOMAIN rs |-> injectBadgesOn(rs[i])]

\* the venue the italic spans of the citation give: the trimmed text of the
\* first span whose trimmed text is longer than 3 characters
citationVenue(italics) ==
    LET long == {i \in DOMAIN italics : Len(trim(italics[i])) > 3}
    IN IF long = {} THEN NoVenue ELSE trim(italics[Min(long)])

\* extractVenueFromMLA of content.js on the italic spans of the citation: the
\* trimmed text of the first span whose trimmed text is longer than 2 characters
extractVenueFromMLA(italics) ==
    LET long == {i \in DOMAIN italics : Len(trim(italics[i])) > 2}
    IN IF long = {} THEN NoVenue ELSE trim(italics[Min(long)])

\* the button of r replaced by b
SetButton(r, b) ==
    [r EXCEPT !.children =
        [i \in DOMAIN @ |-> IF @[i].kind = "button" THEN b ELSE @[i]]]

IsNotButton(e) == e.kind # "button"

\* button.remove()
RemoveButton(r) == [r EXCEPT !.children = SelectSeq(@, IsNotButton)]

TheButton(r) == r.children[CHOOSE i \in DOMAIN r.children : r.children[i].kind = "button"]

\* handleFetchClick after the fetch has settled with response
afterFetch_NotRankedWithoutVenue(r, response) ==
    IF response.outcome # "ok"
    THEN SetButton(r, Button("x", FALSE, "Network error - click to retry"))
    ELSE LET venueName == citationVenue(response.italics)
             ranking == findRanking(IF venueName = NoVenue THEN <<>> ELSE venueName)
         IN IF ranking # None
            THEN [RemoveButton(r) EXCEPT !.children = Append(@, Badge(ranking))]
            ELSE [RemoveButton(r) EXCEPT !.children = Append(@, NotRankedSpan(venueName))]

\* handleFetchClick after the fetch has settled, where the catch block leaves
\* the button as it is
afterFetch_LeavesLoading(r, response) ==
    IF response.outcome # "ok"
    THEN r
    ELSE LET venueName == citationVenue(response.italics)
         IN IF venueName = NoVenue
            THEN SetButton(r, Button("x", FALSE, "Could not extract venue from citation"))
            ELSE LET ranking == findRanking(venueName)
                 IN IF ranking # None
                    THEN [RemoveButton(r) EXCEPT !.children = Append(@, Badge(ranking))]
                    ELSE [RemoveButton(r) EXCEPT
                            !.children = Append(@, NotRankedSpan(venueName))]

afterFetch(r, response) ==
    IF response.outcome # "ok"
    THEN SetButton(r, Button("x", FALSE, "Network error - click to retry"))
    ELSE LET venueName == citationVenue(response.italics)
         IN IF venueName = NoVenue
            THEN SetButton(r, Button("x", FALSE, "Could not extract venue from citation"))
            ELSE LET ranking == findRanking(venueName)
                 IN IF ranking # None
                    THEN [RemoveButton(r) EXCEPT !.children = Append(@, Badge(ranking))]
                    ELSE [RemoveButton(r) EXCEPT
                            !.children = Append(@, NotRankedSpan(venueName))]

\* most results on the page
MaxResults == 1
\* most steps of the clock, each of one cooldown
MaxTicks == 1

StartTime == 10 * FETCH_COOLDOWN

SortTypes == {"default", "citations-desc", "citations-asc"}

\* saveOriginalOrder(false): the results of the page get their index and order
saveOriginalOrder(rs) ==
    IF Len(originalOrder) > 0 THEN rs
    ELSE [i \in DOMAIN rs |-> [rs[i] EXCEPT !.originalIndex = i - 1, !.order = i - 1]]

\* originalOrder after saveOriginalOrder(false)
savedOrder(rs) ==
    IF Len(originalOrder) > 0 THEN originalOrder ELSE [i \in DOMAIN rs |-> i]

\* the results without the original-index attribute, in document order
NewResults(rs) == {i \in DOMAIN rs : rs[i].originalIndex = Unset}

\* the timeout callback of the observer gives each new result the next index
assignOriginalIndices(rs) ==
    [i \in DOMAIN rs |->
        IF i \in NewResults(rs)
        THEN LET index == Len(originalOrder)
                              + Cardinality({j \in NewResults(rs) : j < i})
             IN [rs[i] EXCEPT !.originalIndex = index, !.order = index]
        ELSE rs[i]]

\* originalOrder.push(el) for each new result, in document order
pushNewResults(rs) ==
    LET new == NewResults(rs)
        nth(k) == CHOOSE i \in new : Cardinality({j \in new : j < i}) = k - 1
    IN originalOrder \o [k \in 1..Cardinality(new) |-> nth(k)]

\* parseInt(digits, 10) on a run of decimal digits
RECURSIVE parseInt(_)
parseInt(digits) ==
    IF digits = <<>> THEN 0
    ELSE 10 * parseInt(SubSeq(digits, 1, Len(digits) - 1))
            + DigitValue(digits[Len(digits)])

\* text.match(/Cited by (\d+)/): the digits captured, <<>> without a match
CitedByMatch(text) ==
    LET at == {i \in DOMAIN text :
                  /\ i + Len(CitedBy) <= Len(text)
                  /\ SubSeq(text, i, i + Len(CitedBy) - 1) = CitedBy
                  /\ IsDigit(text[i + Len(CitedBy)])}
    IN IF at = {} THEN <<>>
       ELSE SubSeq(text, Min(at) + Len(CitedBy),
                   RunEnd(text, Min(at) + Len(CitedBy), DigitSet))

\* getCitationCount on the links of a result: the number of the first link
\* that matches, 0 when none does
getCitationCount(links) ==
    LET matching == {i \in DOMAIN links : CitedByMatch(textContent(links[i])) # <<>>}
    IN IF matching = {} THEN 0
       ELSE parseInt(CitedByMatch(textContent(links[Min(matching)])))

\* getCitationCount on the links of each result of the pool, computed once
citationCount == [links \in {r.links : r \in ResultPool} |-> getCitationCount(links)]

\* the index of rs[i] in rs sorted by compare (Array.prototype.sort is stable)
SortedIndex(rs, i, compare) ==
    Cardinality({j \in DOMAIN rs :
                    \/ compare[citationCount[rs[j].links], citationCount[rs[i].links]] < 0
                    \/ /\ compare[citationCount[rs[j].links], citationCount[rs[i].links]] = 0
                       /\ j < i})

\* the comparators of sortResults, on the citation counts of a and b
Citations == {citationCount[r.links] : r \in ResultPool}
MoreCited == [a \in Citations, b \in Citations |-> b - a]
LessCited == [a \in Citations, b \in Citations |-> a - b]

\* sortResults with the two comparators exchanged
sortResults_ComparatorsExchanged(rs, sortType) ==
    [i \in DOMAIN rs |->
        [rs[i] EXCEPT !.order =
            IF sortType = "default"
            THEN IF rs[i].originalIndex = Unset THEN 0 ELSE rs[i].originalIndex
            ELSE IF sortType = "citations-desc"
                 THEN SortedIndex(rs, i, LessCited)
                 ELSE SortedIndex(rs, i, MoreCited)]]

\* sortResults(sortType), on the style.order of the results
sortResults(rs, sortType) ==
    [i \in DOMAIN rs |->
        [rs[i] EXCEPT !.order =
            IF sortType = "default"
            THEN IF rs[i].originalIndex = Unset THEN 0 ELSE rs[i].originalIndex
            ELSE IF sortType = "citations-desc"
                 THEN SortedIndex(rs, i, MoreCited)
                 ELSE SortedIndex(rs, i, LessCited)]]

Init ==
    /\ rankingsData = NullData
    /\ call = NoCall
    /\ results = <<>>
    /\ lastFetchTime = 0
    /\ now = StartTime
    /\ pc = "start"
    /\ timers = 0
    /\ originalOrder = <<>>
    /\ currentSort = "default"

\* loadRankingsData: the payload is fetched and parsed
LoadRankingsData ==
    /\ pc = "start"
    /\ rankingsData' \in PagePayloads
    /\ pc' = "loaded"
    /\ UNCHANGED <<call, results, lastFetchTime, now, timers, originalOrder, currentSort>>

\* loadRankingsData: the fetch or the parse throws
LoadRankingsDataFails ==
    /\ pc = "start"
    /\ rankingsData' = EmptyData
    /\ pc' = "loaded"
    /\ UNCHANGED <<call, results, lastFetchTime, now, timers, originalOrder, currentSort>>

\* init() after the load, on a search page: saveOriginalOrder, the sort
\* controls, injectBadges, then the observer
InitSearchPage ==
    /\ pc = "loaded"
    /\ results' = injectBadges(saveOriginalOrder(results))
    /\ originalOrder' = savedOrder(results)
    /\ pc' = "ready"
    /\ UNCHANGED <<rankingsData, call, lastFetchTime, now, timers, currentSort>>

\* Scholar adds a result to the results container; the mutation observer, once
\* set up, schedules a re-scan
PageAddsResult ==
    /\ Len(results) < MaxResults
    /\ \E r \in ResultPool : results' = Append(results, r)
    /\ timers' = IF pc = "ready" THEN timers + 1 ELSE timers
    /\ UNCHANGED <<rankingsData, call, lastFetchTime, now, pc, originalOrder, currentSort>>

\* the setTimeout callback of the mutation observer
ObserverRescan ==
    /\ timers > 0
    /\ timers' = timers - 1
    /\ LET injected == injectBadges(assignOriginalIndices(results))
       IN results' = IF currentSort # "default"
                     THEN sortResults(injected, currentSort)
                     ELSE injected
    /\ originalOrder' = pushNewResults(results)
    /\ UNCHANGED <<rankingsData, call, lastFetchTime, now, pc, currentSort>>

\* the change handler of the sort select: the user picks another option
ChangeSort(sortType) ==
    /\ pc = "ready"
    /\ sortType # currentSort
    /\ currentSort' = sortType
    /\ results' = sortResults(results, sortType)
    /\ UNCHANGED <<rankingsData, call, lastFetchTime, now, pc, timers, originalOrder>>

\* a click on the lookup button of result i: handleFetchClick up to its await
ClickFetchButton(i) ==
    /\ HasChild(results[i], "button")
    /\ ~TheButton(results[i]).disabled
    /\ IF now - lastFetchTime < FETCH_COOLDOWN
       THEN /\ results' = [results EXCEPT ![i] =
                  SetButton(@, [TheButton(@) EXCEPT
                                  !.title = "Please wait before clicking again"])]
            /\ UNCHANGED lastFetchTime
       ELSE /\ lastFetchTime' = now
            /\ results' = [results EXCEPT ![i] =
                  IF ~@.articleId
                  THEN SetButton(@, Button("x", FALSE,
                                           "Could not find article citation link"))
                  ELSE [SetButton(@, [TheButton(@) EXCEPT
                                        !.label = "loading", !.disabled = TRUE])
                          EXCEPT !.inflight = TRUE]]
    /\ UNCHANGED <<rankingsData, call, now, pc, timers, originalOrder, currentSort>>

\* the fetch of result i settles, and the index is emptied
FetchSettles_EmptiesIndex(i) ==
    /\ results[i].inflight
    /\ \E response \in Responses :
          results' = [results EXCEPT ![i] =
                        [afterFetch(@, response) EXCEPT
                            !.inflight = FALSE, !.response = response]]
    /\ rankingsData' = EmptyData
    /\ UNCHANGED <<call, lastFetchTime, now, pc, timers, originalOrder, currentSort>>

\* the fetch of result i settles, and the handler works on the button created
\* last instead of the button that was clicked
FetchSettles_SharedButton(i) ==
    /\ results[i].inflight
    /\ \E response \in Responses :
          LET last == CHOOSE j \in DOMAIN results :
                         /\ HasChild(results[j], "button")
                         /\ \A k \in DOMAIN results :
                               HasChild(results[k], "button") => k <= j
          IN results' =
               [k \in DOMAIN results |->
                  LET handled == IF k = last THEN afterFetch(results[k], response)
                                 ELSE results[k]
                  IN IF k = i
                     THEN [handled EXCEPT !.inflight = FALSE, !.response = response]
                     ELSE handled]
    /\ UNCHANGED <<rankingsData, call, lastFetchTime, now, pc, timers,
                   originalOrder, currentSort>>

\* the fetch of result i settles: handleFetchClick from its await on
FetchSettles(i) ==
    /\ results[i].inflight
    /\ \E response \in Responses :
          results' = [results EXCEPT ![i] =
                        [afterFetch(@, response) EXCEPT
                            !.inflight = FALSE, !.response = response]]
    /\ UNCHANGED <<rankingsData, call, lastFetchTime, now, pc, timers,
                   originalOrder, currentSort>>

\* time passes, one cooldown at a time; Date.now() is read by the cooldown
\* check only, so only the passing of a running cooldown is a step
Tick ==
    /\ now - lastFetchTime < FETCH_COOLDOWN
    /\ now < StartTime + MaxTicks * FETCH_COOLDOWN
    /\ now' = now + FETCH_COOLDOWN
    /\ UNCHANGED <<rankingsData, call, results, lastFetchTime, pc, timers,
                   originalOrder, currentSort>>

Next ==
    \/ LoadRankingsData
    \/ LoadRankingsDataFails
    \/ InitSearchPage
    \/ PageAddsResult
    \/ ObserverRescan
    \/ \E sortType \in SortTypes : ChangeSort(sortType)
    \/ \E i \in DOMAIN results : ClickFetchButton(i)
    \/ \E i \in DOMAIN results : FetchSettles(i)
    \/ Tick

Spec == Init /\ [][Next]_vars

-----------------------------------------------------------------------------
(* Lookups in flight at once: a page whose results were given the lookup
   button by injectBadges and were clicked a cooldown apart, the fetch of
   each still pending; a result without an article id has failed its click *)

\* the results of the page of lookups
MaxLookups == 2

\* handleFetchClick on the fresh button of r, up to its await
clicked(r) ==
    IF ~r.articleId
    THEN SetButton(r, Button("x", FALSE, "Could not find article citation link"))
    ELSE [SetButton(r, [TheButton(r) EXCEPT !.label = "loading", !.disabled = TRUE])
            EXCEPT !.inflight = TRUE]

\* a page of n results with the lookup of each in flight
LookupsInFlight(n) ==
    /\ rankingsData \in PagePayloads
    /\ call = NoCall
    /\ \E rs \in [1..n -> ResultPool] :
          LET injected == [i \in 1..n |->
                             injectBadgesOn([rs[i] EXCEPT !.originalIndex = i - 1,
                                                          !.order = i - 1])]
          IN /\ \A i \in 1..n : HasChild(injected[i], "button")
             /\ results = [i \in 1..n |-> clicked(injected[i])]
    /\ lastFetchTime = StartTime
    /\ now = StartTime
    /\ pc = "ready"
    /\ timers = 0
    /\ originalOrder = [i \in 1..n |-> i]
    /\ currentSort = "default"

InitLookups == LookupsInFlight(MaxLookups)

NextLookups ==
    \/ \E i \in DOMAIN results : ClickFetchButton(i)
    \/ \E i \in DOMAIN results : FetchSettles(i)
    \/ Tick

SpecLookups == InitLookups /\ [][NextLookups]_vars

\* a fetch that is pending eventually resolves or rejects
InitPending == LookupsInFlight(MaxResults)

SpecPending ==
    /\ InitPending
    /\ [][NextLookups]_vars
    /\ \A i \in 1..MaxResults : WF_vars(FetchSettles(i))

-----------------------------------------------------------------------------
(* Sorting: a search page of several results, sorted and re-sorted while
   Scholar adds results *)

\* most results on the sorted page
MaxSorted == 3

\* the results of the sorted page: two with the same count, one with a lower
\* count, one without a "Cited by" link
SortPool ==
    { r \in ResultPool :
         r.authorLine \in {"proceedings", "truncatedShort", "truncatedAuthors", "shortPrefix"}
         /\ r.title = "article" }

\* the page after the load of the index, before init() goes on
InitSort ==
    /\ rankingsData = Payload(<<M_ICCPS>>, <<>>, <<>>)
    /\ call = NoCall
    /\ results = <<>>
    /\ lastFetchTime = 0
    /\ now = StartTime
    /\ pc = "loaded"
    /\ timers = 0
    /\ originalOrder = <<>>
    /\ currentSort = "default"

\* Scholar adds a result to the results container of the sorted page
SortPageAddsResult ==
    /\ Len(results) < MaxSorted
    /\ \E r \in SortPool : results' = Append(results, r)
    /\ timers' = IF pc = "ready" THEN timers + 1 ELSE timers
    /\ UNCHANGED <<rankingsData, call, lastFetchTime, now, pc, originalOrder, currentSort>>

NextSort ==
    \/ InitSearchPage
    \/ SortPageAddsResult
    \/ ObserverRescan
    \/ \E sortType \in SortTypes : ChangeSort(sortType)

SpecSort == InitSort /\ [][NextSort]_vars

-----------------------------------------------------------------------------
(* The matching pipeline of injectBadges on one extracted venue: findRanking,
   then the prefix step *)

\* a result with nothing appended
BlankResult == Result("article", TRUE, "none", TRUE, <<>>)

\* the venues the pipeline is given: full names and truncated names
PipelineVenues == (TruncatedVenues \ {<<>>}) \cup {N_ICCPS, N_ComputerNetworks, N_Unknown}

InitPipeline ==
    /\ rankingsData \in PrefixPayloads
    /\ \E venueName \in PipelineVenues, hasTruncation \in BOOLEAN :
          call = [fn |-> "resolveVenue", done |-> FALSE,
                  venueName |-> venueName, hasTruncation |-> hasTruncation,
                  result |-> BlankResult]
    /\ PageIdle

\* the callback of injectBadges on a result whose author line gave the venue
CallResolveVenue ==
    /\ call.fn = "resolveVenue" /\ ~call.done
    /\ call' = [call EXCEPT
                  !.done = TRUE,
                  !.result = resolveVenue(BlankResult, call.venueName, call.hasTruncation)]
    /\ UNCHANGED <<rankingsData, pageVars>>

NextPipeline == CallResolveVenue

SpecPipeline == InitPipeline /\ [][NextPipeline]_vars

-----------------------------------------------------------------------------
(* Annotations: a search page of several results, re-scanned while lookups
   are clicked and settle *)

\* most results on the annotated page
MaxAnnotated == 2

\* the results of the annotated page: one that gets the lookup button, one
\* that gets a badge, and a book
AnnotatePool ==
    { r \in ResultPool :
         \/ r.title = "book"
         \/ r.authorLine \in {"proceedings", "shortPrefix"} }

\* the page after init() on one result: it has its index, and the annotation
\* injectBadges gave it
InitAnnotate ==
    /\ rankingsData = Payload(<<M_ICCPS>>, <<>>, <<>>)
    /\ call = NoCall
    /\ \E r \in AnnotatePool :
          results = <<injectBadgesOn([r EXCEPT !.originalIndex = 0, !.order = 0])>>
    /\ lastFetchTime = 0
    /\ now = StartTime
    /\ pc = "ready"
    /\ timers = 0
    /\ originalOrder = <<1>>
    /\ currentSort = "default"

\* Scholar adds a result to the results container of the annotated page
AnnotatePageAddsResult ==
    /\ Len(results) < MaxAnnotated
    /\ \E r \in AnnotatePool : results' = Append(results, r)
    /\ timers' = IF pc = "ready" THEN timers + 1 ELSE timers
    /\ UNCHANGED <<rankingsData, call, lastFetchTime, now, pc, originalOrder, currentSort>>

NextAnnotate ==
    \/ AnnotatePageAddsResult
    \/ ObserverRescan
    \/ \E i \in DOMAIN results : ClickFetchButton(i)
    \/ \E i \in DOMAIN results : FetchSettles(i)
    \/ Tick

SpecAnnotate == InitAnnotate /\ [][NextAnnotate]_vars

-----------------------------------------------------------------------------
(* The author profile page: the rows of the publication table, the badge
   appended to the venue line of a row, and the ranking distribution bar *)

\* venueName.replace(/,?\s*\d{4}\s*$/, '')
StripProfileYear(s) ==
    LET e == RunStart(s, Len(s), SpaceSet) - 1     \* the last of the four digits
        w == RunStart(s, e - 4, SpaceSet)          \* the whitespace before them
    IN IF e >= 4 /\ DigitsAt(s, e - 3, 4)
       THEN Before(s, IF w >= 2 /\ s[w - 1] = "," THEN w - 1 ELSE w)
       ELSE s

\* where /\s*\d+\s*\(/ starts when its parenthesis is at position q of s, 0
\* when it does not match
VolumeStart(s, q) ==
    LET d == RunStart(s, q - 1, SpaceSet) - 1      \* the last digit of \d+
    IN IF d >= 1 /\ IsDigit(s[d])
       THEN RunStart(s, RunStart(s, d, DigitSet) - 1, SpaceSet)
       ELSE 0

\* venueName.replace(/\s*\d+\s*\([^)]*\)\s*$/, '')
StripProfileVolume(s) ==
    LET e == RunStart(s, Len(s), SpaceSet) - 1     \* the closing parenthesis
        opens == {q \in 1..(e - 1) :
                     /\ s[q] = "("
                     /\ \A k \in (q + 1)..(e - 1) : s[k] # ")"
                     /\ VolumeStart(s, q) > 0}
    IN IF e >= 1 /\ s[e] = ")" /\ opens # {}
       THEN Before(s, Min({VolumeStart(s, q) : q \in opens}))
       ELSE s

ProceedingsOfThe ==
    <<"P","r","o","c","e","e","d","i","n","g","s"," ","o","f"," ","t","h","e">>

\* venueName.replace(/^Proceedings of the\s*/i, '') for prefix 'Proceedings of
\* the', venueName.replace(/^Proceedings of\s*/i, '') for 'Proceedings of'
StripProfilePrefix(s, prefix) ==
    IF StartsWithIgnoreCase(s, prefix)
    THEN From(s, RunEnd(s, Len(prefix) + 1, SpaceSet) + 1)
    ELSE s

\* venueName.replace(/^(ACM\/IEEE|IEEE\/ACM|ACM|IEEE)\s+/i, '')
StripProfileOrganization(s) ==
    LET fits == {k \in DOMAIN Organizations :
                    /\ StartsWithIgnoreCase(s, Organizations[k])
                    /\ Len(s) > Len(Organizations[k])
                    /\ IsSpace(s[Len(Organizations[k]) + 1])}
    IN IF fits = {} THEN s
       ELSE From(s, RunEnd(s, Len(Organizations[Min(fits)]) + 1, SpaceSet) + 1)

\* the alternatives of the written-ordinal pattern of the profile page: up to
\* Fortieth
ProfileWrittenOrdinals ==
    {w \in WrittenOrdinals : ~startsWith(w, <<"F","o","r","t","y","-">>)}

\* venueName.replace(/^(First|Second|...|Fortieth)\s+/i, '')
StripProfileWrittenOrdinal(s) ==
    LET fits == {w \in ProfileWrittenOrdinals :
                    /\ StartsWithIgnoreCase(s, w)
                    /\ Len(s) > Len(w)
                    /\ IsSpace(s[Len(w) + 1])}
    IN IF fits = {} THEN s
       ELSE LET w == CHOOSE w \in fits : TRUE
            IN From(s, RunEnd(s, Len(w) + 1, SpaceSet) + 1)

\* venueName.replace(/\s*[…\.]{3,}\s*$/, '')
StripProfileDots(s) ==
    LET e == RunStart(s, Len(s), SpaceSet) - 1        \* the last of the dots
        b == RunStart(s, e, {"ELLIPSIS", "."})         \* the first of them
    IN IF e - b + 1 >= 3 THEN Before(s, RunStart(s, b - 1, SpaceSet)) ELSE s

\* venueName.replace(/\s*…\s*$/, '')
StripProfileEllipsis(s) ==
    LET e == RunStart(s, Len(s), SpaceSet) - 1
    IN IF e >= 1 /\ s[e] = "ELLIPSIS" THEN Before(s, RunStart(s, e - 1, SpaceSet)) ELSE s

\* the ten replacements of the venue line of a profile row, each followed by
\* trim()
profileCleanup(text) ==
    trim(StripProfileEllipsis(
     trim(StripProfileDots(
      trim(StripProfileWrittenOrdinal(
       trim(StripNumericOrdinal(
        trim(StripProfileOrganization(
         trim(StripProfilePrefix(
          trim(StripProfilePrefix(
           trim(StripTrailingComma(
            trim(StripProfileVolume(
             trim(StripProfileYear(
              trim(text)
             ))
            ))
           )),
           ProceedingsOfThe)),
          trim(ProceedingsOf)))
        ))
       ))
      ))
     ))
    ))

\* return venueName || null
cleanProfileVenue(text) ==
    IF profileCleanup(text) = <<>> THEN NoVenue ELSE profileCleanup(text)

\* the text of a CORE rank and of an SJR quartile
LabelText(label) ==
    CASE label = "A*" -> <<"A", "*">>
      [] label = "A" -> <<"A">>
      [] label = "B" -> <<"B">>
      [] label = "C" -> <<"C">>
      [] label = "Q1" -> <<"Q", "1">>
      [] label = "Q2" -> <<"Q", "2">>
      [] label = "Q3" -> <<"Q", "3">>
      [] label = "Q4" -> <<"Q", "4">>

\* the textContent of createBadgeContainer(ranking): the badges, then the
\* tooltip
badgeTextContent(ranking) ==
    (IF ranking.core # "" THEN LabelText(ranking.core) ELSE <<>>)
    \o (IF ranking.sjr # "" THEN <<"S","J","R"," ">> \o LabelText(ranking.sjr) ELSE <<>>)
    \o (IF ranking.fullName # <<>> THEN ranking.fullName ELSE ranking.key)
    \o (IF ranking.type = "conference"
        THEN <<"C","o","n","f","e","r","e","n","c","e">>
        ELSE <<"J","o","u","r","n","a","l">>)
    \o (IF ranking.core # "" THEN <<"C","O","R","E",":"," ">> \o LabelText(ranking.core)
        ELSE <<>>)
    \o (IF ranking.sjr # "" THEN <<"S","J","R",":"," ">> \o LabelText(ranking.sjr)
        ELSE <<>>)

\* a row of the publication table: whether it has a gray venue line, the text
\* Scholar put there, and the badge containers appended to the line
Row(hasVenueLine, text) == [hasVenueLine |-> hasVenueLine, text |-> text, badges |-> <<>>]

\* venueLine.textContent: the text of the line and of everything appended to it
RECURSIVE badgesText(_)
badgesText(badges) ==
    IF badges = <<>> THEN <<>>
    ELSE badgeTextContent(Head(badges)) \o badgesText(Tail(badges))

venueLineText(row) == row.text \o badgesText(row.badges)

\* extractVenueNameFromProfileRow
extractVenueNameFromProfileRow(row) ==
    IF ~row.hasVenueLine THEN NoVenue ELSE cleanProfileVenue(venueLineText(row))

CoreRanks == {"A*", "A", "B", "C"}
SjrQuartiles == {"Q1", "Q2", "Q3", "Q4"}

\* the rank a row is counted under: that of findRanking on the extracted venue
\* name, Unranked without a name, a ranking or a rank
countedCore(row) ==
    LET venueName == extractVenueNameFromProfileRow(row)
    IN IF venueName = NoVenue THEN "Unranked"
       ELSE IF findRanking(venueName) = None THEN "Unranked"
       ELSE IF findRanking(venueName).core = "" THEN "Unranked"
       ELSE findRanking(venueName).core

countedSjr(row) ==
    LET venueName == extractVenueNameFromProfileRow(row)
    IN IF venueName = NoVenue THEN "Unranked"
       ELSE IF findRanking(venueName) = None THEN "Unranked"
       ELSE IF findRanking(venueName).sjr = "" THEN "Unranked"
       ELSE findRanking(venueName).sjr

\* calculateRankingDistribution over the rows of the page
calculateRankingDistribution(rows) ==
    [core |-> [k \in CoreRanks \cup {"Unranked", "total"} |->
                 IF k = "total" THEN Len(rows)
                 ELSE Cardinality({i \in DOMAIN rows : countedCore(rows[i]) = k})],
     sjr |-> [k \in SjrQuartiles \cup {"Unranked", "total"} |->
                 IF k = "total" THEN Len(rows)
                 ELSE Cardinality({i \in DOMAIN rows : countedSjr(rows[i]) = k})]]

\* the callback of results.forEach in injectBadgesOnProfilePage, on one row
injectBadgeOnRow(row) ==
    IF row.badges # <<>> THEN row
    ELSE IF ~row.hasVenueLine THEN row
    ELSE IF cleanProfileVenue(venueLineText(row)) = NoVenue THEN row
    ELSE IF findRanking(cleanProfileVenue(venueLineText(row))) = None THEN row
    ELSE [row EXCEPT !.badges =
            Append(@, findRanking(cleanProfileVenue(venueLineText(row))))]

\* injectBadgesOnProfilePage
injectBadgesOnProfilePage(rows) ==
    IF rankingsData = NullData THEN rows
    ELSE [i \in DOMAIN rows |-> injectBadgeOnRow(rows[i])]

V_ICCPS == N_ICCPS \o <<",", " ", "2", "0", "2", "0">>
V_Proceedings ==
    Words(<<W_Proceedings, W_of, W_the, O_ACMIEEE, D_16th, N_ICCP>>)
        \o <<" ", "ELLIPSIS", ",", " ", "2", "0", "2", "0">>
V_ComputerNetworks ==
    N_ComputerNetworks \o <<" ","1","2"," ","(","3",")",","," ","2","0","2","1">>
V_Unknown == N_Unknown \o <<",", " ", "2", "0", "1", "9">>

\* the rows a profile page is made of
RowPool ==
    { Row(TRUE, V_ICCPS), Row(TRUE, V_Proceedings), Row(TRUE, V_ComputerNetworks),
      Row(TRUE, V_Unknown), Row(TRUE, <<>>), Row(FALSE, <<>>) }

K_CPS == <<"C","P","S">>

\* the payloads the profile page is loaded with
ProfilePayloads ==
    { Payload(<<M_ICCPS>>, <<Member(K_COMNET, Data(N_ComputerNetworks, TRUE, "", "Q2"))>>,
              <<>>),
      Payload(<<Member(K_ICCPS, Data(N_ICCPS, TRUE, "A", "")),
                Member(K_CPS, Data(N_CPS, FALSE, "B", ""))>>, <<M_TCPS>>, <<>>) }

\* most rows of the publication table
MaxRows == 2

\* the distribution bar: what createRankingDistributionBar rendered last
NoBar == [fn |-> "none"]
Bar(distributions) ==
    [fn |-> "createRankingDistributionBar",
     core |-> distributions.core, sjr |-> distributions.sjr]

\* the profile page after the load of the index, before init() goes on
InitProfile ==
    /\ rankingsData \in ProfilePayloads
    /\ call = NoBar
    /\ results = <<>>
    /\ lastFetchTime = 0
    /\ now = StartTime
    /\ pc = "loaded"
    /\ timers = 0
    /\ originalOrder = <<>>
    /\ currentSort = "default"

\* init() after the load, on a profile page: createRankingDistributionBar,
\* injectBadgesOnProfilePage, then the observer; the bar is not created for a
\* page without rows
InitProfilePage ==
    /\ pc = "loaded"
    /\ call' = IF results = <<>> THEN call ELSE Bar(calculateRankingDistribution(results))
    /\ results' = injectBadgesOnProfilePage(results)
    /\ pc' = "ready"
    /\ UNCHANGED <<rankingsData, lastFetchTime, now, timers, originalOrder, currentSort>>

\* Scholar adds a row to the publication table; the mutation observer, once
\* set up, schedules a re-scan
ProfileAddsRow ==
    /\ Len(results) < MaxRows
    /\ \E row \in RowPool : results' = Append(results, row)
    /\ timers' = IF pc = "ready" THEN timers + 1 ELSE timers
    /\ UNCHANGED <<rankingsData, call, lastFetchTime, now, pc, originalOrder, currentSort>>

\* the setTimeout callback of the profile observer: injectBadgesOnProfilePage,
\* then createRankingDistributionBar
ProfileRescan ==
    /\ timers > 0
    /\ timers' = timers - 1
    /\ results' = injectBadgesOnProfilePage(results)
    /\ call' = Bar(calculateRankingDistribution(injectBadgesOnProfilePage(results)))
    /\ UNCHANGED <<rankingsData, lastFetchTime, now, pc, originalOrder, currentSort>>

NextProfile ==
    \/ InitProfilePage
    \/ ProfileAddsRow
    \/ ProfileRescan

SpecProfile == InitProfile /\ [][NextProfile]_vars

-----------------------------------------------------------------------------
(* content.js, second copy: its injectBadges takes the venue of each result
   from the citation popup, falling back on the author line *)

\* String.prototype.split with a string separator
RECURSIVE splitOn(_, _)
splitOn(s, separator) ==
    LET starts == {i \in 1..(Len(s) - Len(separator) + 1) :
                      SubSeq(s, i, i + Len(separator) - 1) = separator}
    IN IF starts = {} THEN <<s>>
       ELSE <<Before(s, Min(starts))>>
                \o splitOn(From(s, Min(starts) + Len(separator)), separator)

knownPublishersContentJs ==
    { <<"s","p","r","i","n","g","e","r">>,
      <<"e","l","s","e","v","i","e","r">>,
      <<"w","i","l","e","y">>,
      <<"a","c","m">>,
      <<"i","e","e","e">>,
      <<"n","a","t","u","r","e">>,
      <<"m","d","p","i">>,
      <<"t","a","y","l","o","r"," ","&"," ","f","r","a","n","c","i","s">>,
      <<"o","x","f","o","r","d">>,
      <<"c","a","m","b","r","i","d","g","e">>,
      <<"m","i","t"," ","p","r","e","s","s">>,
      <<"a","a","a","i">> }

\* part.replace(/\s*….*$/, '')
StripFromEllipsis(part) ==
    LET es == {e \in DOMAIN part : part[e] = "ELLIPSIS"}
    IN IF es = {} THEN part
       ELSE Before(part, RunStart(part, Min(es) - 1, SpaceSet))

\* the tests that skip a part
IsSkippedContentJs(part) ==
    \/ IsYearOnly(part)
    \/ HasDomainFragment(part)
    \/ toLowerCase(part) \in knownPublishersContentJs

\* the seven replacements, each followed by trim()
CleanPartContentJs(part) ==
    trim(StripTrailingComma(
        trim(StripPageNumbers(
            trim(StripVolumeIssue(
                trim(StripTrailingYear(
                    trim(StripCommaYear(
                        trim(StripLeadingEllipsis(
                            trim(StripFromEllipsis(part))))))))))))))

\* extractVenueFromAuthorLine of content.js
extractVenueFromAuthorLineContentJs(authorLineText) ==
    LET parts == splitOn(authorLineText, <<" ","-"," ">>)
        accepted == {i \in 2..Len(parts) :
                        /\ ~IsSkippedContentJs(trim(parts[i]))
                        /\ Len(CleanPartContentJs(trim(parts[i]))) >= MinVenueLength}
    IN IF Len(parts) < 2 \/ accepted = {} THEN NoVenue
       ELSE CleanPartContentJs(trim(parts[Min(accepted)]))

\* extractVenueFromAuthorLine of content.js on the text of each author line of
\* the pool, computed once
extractedVenueContentJs ==
    [authorLine \in AuthorLines |->
        extractVenueFromAuthorLineContentJs(textContent(authorLine))]

\* the alias loop of findRanking of content.js
aliasPassContentJs(index, normalized) ==
    LET aliases == Object_entries(index.aliases)
        hits == {i \in DOMAIN aliases :
                    /\ Len(normalizeString(aliases[i].key)) >= MinAliasLength
                    /\ isFullNameMatchContentJs(normalized,
                                                normalizeString(aliases[i].key), FALSE)
                    /\ \/ HasOwn(index.conferences, aliases[i].value)
                       \/ HasOwn(index.journals, aliases[i].value)}
    IN IF hits = {} THEN None
       ELSE LET canonical == aliases[Min(hits)].value
            IN IF HasOwn(index.conferences, canonical)
               THEN Ranking(Get(index.conferences, canonical), canonical, "conference")
               ELSE Ranking(Get(index.journals, canonical), canonical, "journal")

\* the conference loop and the journal loop of findRanking of content.js
entryPassContentJs(obj, type, normalized) ==
    LET entries == Object_entries(obj)
        stops == {i \in DOMAIN entries :
                     \/ entries[i].value = JsonNull
                     \/ /\ normalizeString(entries[i].value.fullName) # <<>>
                        /\ isFullNameMatchContentJs(
                               normalized, normalizeString(entries[i].value.fullName),
                               entries[i].value.exactMatch)}
    IN IF stops = {} THEN None
       ELSE IF entries[Min(stops)].value = JsonNull THEN TypeError
       ELSE Ranking(entries[Min(stops)].value, entries[Min(stops)].key, type)

\* findRanking of content.js
findRankingContentJs(index, venueName) ==
    IF index = NullData \/ venueName = <<>> THEN None
    ELSE LET normalized == normalizeString(venueName)
             byAlias == IF HasAliases(index) THEN aliasPassContentJs(index, normalized)
                        ELSE None
             byConference == entryPassContentJs(index.conferences, "conference", normalized)
         IN IF byAlias # None THEN byAlias
            ELSE IF byConference # None THEN byConference
            ELSE entryPassContentJs(index.journals, "journal", normalized)

\* the debug label of a result, with its text: loading, the detected venue, or
\* no venue
DebugLabel(text) == [kind |-> "debug", text |-> text]
Loading == <<"loading">>

\* debugLabel.textContent = ...
SetDebugLabel(r, text) ==
    [r EXCEPT !.children =
        [i \in DOMAIN @ |-> IF @[i].kind = "debug" THEN DebugLabel(text) ELSE @[i]]]

\* fetchVenueFromCitePopup once its fetch has settled: a thrown error is
\* caught and gives null
fetchVenueFromCitePopup(response) ==
    IF response.outcome # "ok" THEN NoVenue ELSE extractVenueFromMLA(response.italics)

\* processResult from the venue of the citation on (NoVenue: none, or no
\* article id): the fallback on the author line, the label, the ranking
finishResult(r, citation) ==
    LET venueName == IF citation # NoVenue THEN citation
                     ELSE extractedVenueContentJs[r.authorLine]
        labelled == SetDebugLabel(r, venueName)
    IN IF venueName = NoVenue THEN labelled
       ELSE LET ranking == findRankingContentJs(rankingsData, venueName)
            IN IF ranking = None THEN labelled
               ELSE [labelled EXCEPT !.children = Append(@, Badge(ranking))]

\* processResult up to its await: a result with an article id has the fetch of
\* its citation popup started
processResult(r) ==
    IF HasChild(r, "debug") THEN r
    ELSE IF IsBookTitle(textContent(r.title)) THEN r
    ELSE IF ~r.hasAuthorLine THEN r
    ELSE IF r.articleId
         THEN [Annotate(r, DebugLabel(Loading), "citation") EXCEPT !.inflight = TRUE]
         ELSE finishResult(Annotate(r, DebugLabel(Loading), "authorLine"), NoVenue)

\* injectBadges of content.js: processResult is started on every result, the
\* starts 100 ms apart, taken here together
injectBadgesContentJs(rs) ==
    IF rankingsData = NullData THEN rs
    ELSE [i \in DOMAIN rs |-> processResult(rs[i])]

\* init() of content.js after the load, on a search page
InitSearchPageContentJs ==
    /\ pc = "loaded"
    /\ results' = injectBadgesContentJs(saveOriginalOrder(results))
    /\ originalOrder' = savedOrder(results)
    /\ pc' = "ready"
    /\ UNCHANGED <<rankingsData, call, lastFetchTime, now, timers, currentSort>>

\* the setTimeout callback of the mutation observer of content.js
ObserverRescanContentJs ==
    /\ timers > 0
    /\ timers' = timers - 1
    /\ LET injected == injectBadgesContentJs(assignOriginalIndices(results))
       IN results' = IF currentSort # "default"
                     THEN sortResults(injected, currentSort)
                     ELSE injected
    /\ originalOrder' = pushNewResults(results)
    /\ UNCHANGED <<rankingsData, call, lastFetchTime, now, pc, currentSort>>

\* the fetch of the citation popup of result i settles: processResult from its
\* await on
FetchSettlesContentJs(i) ==
    /\ results[i].inflight
    /\ \E response \in Responses :
          results' = [results EXCEPT ![i] =
                        [finishResult(@, fetchVenueFromCitePopup(response)) EXCEPT
                            !.inflight = FALSE, !.response = response]]
    /\ UNCHANGED <<rankingsData, call, lastFetchTime, now, pc, timers,
                   originalOrder, currentSort>>

NextContentJs ==
    \/ LoadRankingsData
    \/ LoadRankingsDataFails
    \/ InitSearchPageContentJs
    \/ PageAddsResult
    \/ ObserverRescanContentJs
    \/ \E i \in DOMAIN results : FetchSettlesContentJs(i)

SpecContentJs == Init /\ [][NextContentJs]_vars

-----------------------------------------------------------------------------
(* The venue of the citation popup: Init draws the italic spans, the one action
   takes the venue from them *)

\* the texts of the italic spans of a citation popup
SpanPool ==
    { <<"V","o","l">>, <<"4","2">>, <<" ","V","o","l"," ">>, <<" ","I","E","E","E"," ">>,
      <<>>, N_Unknown }

\* most italic spans of a citation popup
MaxSpans == 3

InitCitation ==
    /\ rankingsData = NullData
    /\ \E italics \in UNION {[1..k -> SpanPool] : k \in 0..MaxSpans} :
          call = [fn |-> "citationVenue", done |-> FALSE, italics |-> italics,
                  result |-> NoVenue, resultContentJs |-> NoVenue]
    /\ PageIdle

\* the venue handleFetchClick takes from the italic spans, and the venue
\* extractVenueFromMLA of content.js takes from them
TakeCitationVenue ==
    /\ call.fn = "citationVenue" /\ ~call.done
    /\ call' = [call EXCEPT !.done = TRUE,
                            !.result = citationVenue(call.italics),
                            !.resultContentJs = extractVenueFromMLA(call.italics)]
    /\ UNCHANGED <<rankingsData, pageVars>>

NextCitation == TakeCitationVenue

SpecCitation == InitCitation /\ [][NextCitation]_vars

-----------------------------------------------------------------------------
(* Loading the configuration payload: Init draws how the fetch of
   data/core-rankings.json ends, the first action is loadRankingsData, and
   findRanking is called on what it left *)

\* well-formed members
E_ICCPS == Member(K_ICCPS, Data(N_ICCPS, FALSE, "A", ""))
E_TCPS == Member(K_TCPS, Data(N_TCPS, FALSE, "", "Q1"))
A_CPSWeek == Member(N_CPSWeek, K_ICCPS)

\* an entry value {} : no fullName, no exactMatch
E_Empty == Member(K_7, Data(<<>>, FALSE, "", ""))
\* an entry value null
E_Null == Member(K_7, JsonNull)

\* the values response.json() resolves to
JsonDocuments ==
    { Payload(<<E_ICCPS>>, <<E_TCPS>>, <<A_CPSWeek>>),
      JsonNull,
      [journals |-> <<E_TCPS>>, aliases |-> <<A_CPSWeek>>],
      [conferences |-> <<E_ICCPS>>, aliases |-> <<A_CPSWeek>>],
      [conferences |-> <<E_ICCPS>>, journals |-> <<E_TCPS>>],
      [aliases |-> <<A_CPSWeek>>],
      Payload(<<E_Empty>>, <<>>, <<>>),
      Payload(<<E_Null>>, <<>>, <<>>),
      Payload(<<E_ICCPS, E_Null>>, <<E_TCPS>>, <<>>),
      Payload(<<E_ICCPS>>, <<E_Null, E_TCPS>>, <<>>) }

\* how the fetch and the parse of the payload end
LoadOutcomes ==
    { [kind |-> "fetchRejects"], [kind |-> "jsonRejects"] }
        \cup { [kind |-> "json", value |-> d] : d \in JsonDocuments }

\* Object.keys(value[collection]) of the log line throws: value is null, or the
\* collection is undefined
KeysThrow(value, collection) == value = JsonNull \/ collection \notin DOMAIN value

\* rankingsData after loadRankingsData, the load having ended in outcome: the
\* catch block assigns the empty index when the fetch, the parse or the log
\* line throws; a value that gets past the log line stays as parsed
loadRankingsData(outcome) ==
    IF outcome.kind # "json" THEN EmptyData
    ELSE IF KeysThrow(outcome.value, "conferences") \/ KeysThrow(outcome.value, "journals")
         THEN EmptyData
         ELSE outcome.value

InitLoad ==
    /\ rankingsData = NullData
    /\ \E outcome \in LoadOutcomes :
          call = [fn |-> "loadRankingsData", done |-> FALSE, outcome |-> outcome]
    /\ PageIdle

CallLoadRankingsData ==
    /\ call.fn = "loadRankingsData" /\ ~call.done
    /\ rankingsData' = loadRankingsData(call.outcome)
    /\ call' = [call EXCEPT !.done = TRUE]
    /\ UNCHANGED pageVars

\* a call of findRanking after the load
CallFindRankingAfterLoad ==
    /\ call.fn = "loadRankingsData" /\ call.done
    /\ \E venueName \in Candidates :
          call' = [fn |-> "findRanking", done |-> TRUE, outcome |-> call.outcome,
                   venueName |-> venueName, result |-> findRanking(venueName)]
    /\ UNCHANGED <<rankingsData, pageVars>>

NextLoad == CallLoadRankingsData \/ CallFindRankingAfterLoad

SpecLoad == InitLoad /\ [][NextLoad]_vars

-----------------------------------------------------------------------------
(* Properties of isFullNameMatch and findRanking *)

\* what the call was made with, normalized
CallNormalized == normalizeString(call.venueName)

FindRankingDone == call.fn = "findRanking" /\ call.done
FullNameMatchDone == call.fn = "isFullNameMatch" /\ call.done

\* a and b are related by one of the three tests of the matcher, spelled out
\* on the strings themselves
TextsMatch(n, a) ==
    \/ n = a
    \/ includes(n, a)
    \/ Len(n) >= 25 /\ includes(a, n)

\* the members of obj whose key is canonical
Resolves(obj, canonical) == {m \in Range(obj) : m.key = canonical}

\* alias member a of the index is long enough, matches n, and resolves
AliasQualifies(index, n, a) ==
    /\ Len(normalizeString(a.key)) >= 10
    /\ TextsMatch(n, normalizeString(a.key))
    /\ Resolves(index.conferences, a.value) \cup Resolves(index.journals, a.value) # {}

\* member x of obj comes before member y of obj when the own properties of obj
\* are enumerated
Precedes(obj, x, y) ==
    LET px == CHOOSE i \in DOMAIN obj : obj[i] = x
        py == CHOOSE i \in DOMAIN obj : obj[i] = y
    IN IF IsArrayIndex(x.key) /\ IsArrayIndex(y.key)
       THEN x.key # y.key /\ DigitsLeq(x.key, y.key)
       ELSE IF IsArrayIndex(x.key) # IsArrayIndex(y.key)
            THEN IsArrayIndex(x.key)
            ELSE px < py

\* C1: when an alias of normalized length >= 10 matches the candidate and its
\* canonical key is a conference or a journal, findRanking returns the entry
\* such an alias resolves to (that of the first such alias), whether or not a
\* conference or journal full name matches the candidate too.
C1_AliasTakesPriority ==
    FindRankingDone /\ call.venueName # <<>> =>
        LET n == CallNormalized
            qualifying == {a \in Range(rankingsData.aliases) :
                              AliasQualifies(rankingsData, n, a)}
        IN qualifying # {} =>
              \E a \in qualifying :
                  /\ \A b \in qualifying \ {a} : Precedes(rankingsData.aliases, a, b)
                  /\ call.result.key = a.value
                  /\ \/ /\ call.result.type = "conference"
                        /\ \E m \in Resolves(rankingsData.conferences, a.value) :
                              call.result.fullName = m.value.fullName
                     \/ /\ call.result.type = "journal"
                        /\ Resolves(rankingsData.conferences, a.value) = {}
                        /\ \E m \in Resolves(rankingsData.journals, a.value) :
                              call.result.fullName = m.value.fullName

\* C1 witness: an alias resolves to a journal while a conference full name is
\* equal to the candidate, and the journal is returned
C1_Witness ==
    /\ FindRankingDone
    /\ \E a \in Range(rankingsData.aliases), c \in Range(rankingsData.conferences) :
          /\ AliasQualifies(rankingsData, CallNormalized, a)
          /\ normalizeString(c.value.fullName) = CallNormalized
          /\ c.key # a.value
          /\ call.result.key = a.value
          /\ call.result.type = "journal"

\* the first member, in insertion order, of the members of obj that satisfy Hit
FirstInserted(obj, Hit(_)) ==
    LET hits == {i \in DOMAIN obj : Hit(obj[i])}
    IN IF hits = {} THEN <<>> ELSE <<obj[Min(hits)]>>

\* entry member m matches n: equality always, the substring tests only for a
\* target of 10 characters or more that is not exact-match-only
EntryQualifies(n, m) ==
    LET t == normalizeString(m.value.fullName)
    IN /\ t # <<>>
       /\ \/ n = t
          \/ ~m.value.exactMatch /\ Len(t) >= 10 /\ TextsMatch(n, t)

\* C2: findRanking returns the first matching entry when aliases, then
\* conferences, then journals are each scanned in the insertion order of the
\* payload, for every key set (keys that look like integers included).
C2_FirstMatchInInsertionOrder ==
    FindRankingDone /\ call.venueName # <<>> =>
        LET n == CallNormalized
            AliasHit(a) == AliasQualifies(rankingsData, n, a)
            EntryHit(m) == EntryQualifies(n, m)
            a == FirstInserted(rankingsData.aliases, AliasHit)
            c == FirstInserted(rankingsData.conferences, EntryHit)
            j == FirstInserted(rankingsData.journals, EntryHit)
        IN IF a # <<>> THEN call.result.key = a[1].value
           ELSE IF c # <<>> THEN call.result.key = c[1].key
           ELSE IF j # <<>> THEN call.result.key = j[1].key
           ELSE call.result = None

\* C3: isFullNameMatch answers true whenever the normalized candidate equals a
\* non-empty normalized target, whatever the length of the target and the
\* exact-match flag, in every copy of the function.
C3_EqualNamesMatch ==
    FullNameMatchDone /\ call.target # <<>> /\ call.detected = call.target =>
        call.result /\ call.resultContentJs

\* C4: an entry that is exact-match-only, or whose normalized full name is
\* shorter than 10 characters, comes out of the conference and journal passes
\* only for a candidate whose normalized text equals its normalized full name.
C4_ExactOrShortNeedsEquality ==
    FindRankingDone /\ call.venueName # <<>> =>
        LET n == CallNormalized
            byAlias == {a \in Range(rankingsData.aliases) :
                           AliasQualifies(rankingsData, n, a)}
        IN byAlias = {} /\ call.result # None
              /\ (call.result.exactMatch
                    \/ Len(normalizeString(call.result.fullName)) < 10)
              => n = normalizeString(call.result.fullName)

\* C4 witness: an exact-match-only journal whose name is a proper substring of
\* the candidate is in the index and nothing is returned
C4_Witness ==
    /\ FindRankingDone
    /\ call.result = None
    /\ \E m \in Range(rankingsData.journals) :
          /\ m.value.exactMatch
          /\ Len(normalizeString(m.value.fullName)) >= 10
          /\ includes(CallNormalized, normalizeString(m.value.fullName))

\* C5: a normalized candidate shorter than 25 characters that is not equal to
\* the target and does not contain it is no match, also when it is a prefix or
\* another substring of the target.
C5_ShortCandidateNeverReverseMatches ==
    FullNameMatchDone
        /\ Len(call.detected) < 25
        /\ call.detected # call.target
        /\ ~includes(call.detected, call.target)
        => ~call.result

\* C5 witness: a 24-character true prefix of a longer target that is not
\* exact-match-only is rejected
C5_Witness ==
    /\ FullNameMatchDone
    /\ Len(call.detected) = 24
    /\ Len(call.target) > 24
    /\ startsWith(call.target, call.detected)
    /\ ~call.exactMatch
    /\ ~call.result

\* the index without the aliases whose normalized text is shorter than 10
IsLongAlias(a) == Len(normalizeString(a.key)) >= 10

WithoutShortAliases(index) ==
    [index EXCEPT !.aliases = SelectSeq(index.aliases, IsLongAlias)]

\* C7: an alias whose normalized text is shorter than 10 characters never
\* produces a match: findRanking returns what it returns on the index without
\* those aliases, also for a candidate equal to such an alias.
C7_ShortAliasNeverMatches ==
    FindRankingDone =>
        /\ call.result = findRankingIn(WithoutShortAliases(rankingsData), call.venueName)
        /\ \A a \in Range(rankingsData.aliases) :
              /\ ~IsLongAlias(a)
              /\ normalizeString(a.key) = CallNormalized
              /\ ~\E b \in Range(rankingsData.aliases) :
                     AliasQualifies(rankingsData, CallNormalized, b)
              /\ ~\E m \in Range(rankingsData.conferences) \cup Range(rankingsData.journals) :
                     EntryQualifies(CallNormalized, m)
              => call.result = None

\* C7 witness: the candidate equals a short alias whose canonical key is a
\* conference of the index, and nothing is returned
C7_Witness ==
    /\ FindRankingDone
    /\ call.result = None
    /\ \E a \in Range(rankingsData.aliases) :
          /\ normalizeString(a.key) = CallNormalized
          /\ Len(normalizeString(a.key)) < 10
          /\ Resolves(rankingsData.conferences, a.value) # {}

-----------------------------------------------------------------------------
(* Properties of the search-page pipeline *)

\* injectBadges does not skip r as a book or for want of an author line
Eligible(r) == r.hasAuthorLine /\ ~IsBookTitle(textContent(r.title))

\* injectBadges has run over r: something is appended to it, or the page is
\* initialized and no re-scan is pending
Processed(r) == r.children # <<>> \/ (pc = "ready" /\ timers = 0)

VenueOf(r) == extractedVenue[r.authorLine]

\* the venues the author lines of the pool give, and the indexes of a page
Venues == {extractedVenue[authorLine] : authorLine \in AuthorLines} \ {NoVenue}
Indexes == PagePayloads \cup {EmptyData}

\* findRanking and findPrefixMatches on each of them, computed once
rankingIn == [index \in Indexes, v \in Venues |-> findRankingIn(index, v)]
prefixMatchesIn == [index \in Indexes, v \in Venues |-> findPrefixMatchesIn(index, v)]

\* findRanking(v) and findPrefixMatches(v) on the index of the page
RankingOf(v) == rankingIn[rankingsData, v]
PrefixMatchesOf(v) == prefixMatchesIn[rankingsData, v]

HasEllipsis(r) ==
    \E k \in DOMAIN textContent(r.authorLine) : textContent(r.authorLine)[k] = "ELLIPSIS"

\* the conferences, then the journals, as findRanking goes through them
Tagged(entries, type) ==
    [k \in DOMAIN entries |->
        [key |-> entries[k].key, value |-> entries[k].value, type |-> type]]

SearchOrder(index) ==
    Tagged(Object_entries(index.conferences), "conference")
        \o Tagged(Object_entries(index.journals), "journal")

\* C6: a candidate of 25 or more normalized characters that is a substring of
\* the normalized full name of an entry that is not exact-match-only, with no
\* alias and no earlier entry matching, makes findRanking return that entry,
\* and injectBadges attaches its badge on the exact path, with no prefix
\* matching and no lookup button.
C6_TruncatedNameAccepted ==
    \A i \in DOMAIN results :
        LET r == results[i]
            v == VenueOf(r)
            n == normalizeString(v)
            order == SearchOrder(rankingsData)
        IN Eligible(r) /\ Processed(r) /\ v # NoVenue /\ Len(n) >= 25 =>
              \A k \in DOMAIN order :
                  /\ ~order[k].value.exactMatch
                  /\ includes(normalizeString(order[k].value.fullName), n)
                  /\ \A a \in Range(rankingsData.aliases) :
                        ~AliasQualifies(rankingsData, n, a)
                  /\ \A j \in 1..(k - 1) : ~EntryQualifies(n, order[j])
                  => /\ RankingOf(v) # None
                     /\ RankingOf(v).key = order[k].key
                     /\ RankingOf(v).type = order[k].type
                     /\ RankingOf(v).fullName = order[k].value.fullName
                     /\ r.children = <<Badge(RankingOf(v))>>
                     /\ r.via = "exact"

\* C6 witness: the venue of the author line is a truncated conference name of
\* more than 25 characters, shorter than the full name it is part of, and the
\* badge of that conference is on the result
C6_Witness ==
    /\ pc = "ready"
    /\ \E i \in DOMAIN results, c \in Range(rankingsData.conferences) :
        LET n == normalizeString(VenueOf(results[i]))
            t == normalizeString(c.value.fullName)
        IN /\ Eligible(results[i])
           /\ VenueOf(results[i]) # NoVenue
           /\ Len(n) >= 25 /\ Len(n) < Len(t) /\ includes(t, n)
           /\ rankingsData.aliases = <<>>
           /\ Len(results[i].children) = 1
           /\ results[i].children[1].kind = "badge"
           /\ results[i].children[1].ranking.key = c.key

\* C8: a result whose extracted venue findRanking resolves carries exactly the
\* badge of the entry findRanking returns, attached on the exact path: no
\* prefix matching, no lookup button, with or without an ellipsis in the line.
C8_ExactMatchAccepted ==
    \A i \in DOMAIN results :
        LET r == results[i]
            v == VenueOf(r)
        IN Eligible(r) /\ Processed(r) /\ v # NoVenue /\ RankingOf(v) # None =>
              /\ r.children = <<Badge(RankingOf(v))>>
              /\ r.via = "exact"

\* C8 witness: an author line with an ellipsis whose venue is in the index
\* carries the badge of that entry
C8_Witness ==
    /\ pc = "ready"
    /\ \E i \in DOMAIN results :
        /\ Eligible(results[i])
        /\ HasEllipsis(results[i])
        /\ VenueOf(results[i]) # NoVenue
        /\ RankingOf(VenueOf(results[i])) # None
        /\ results[i].children = <<Badge(RankingOf(VenueOf(results[i])))>>

\* r carries the lookup button injectBadges gave it, or what a lookup that
\* came back with a citation has put in its place
DeferredToLookup(r) ==
    /\ r.via = "fallback"
    /\ Len(r.children) = 1
    /\ r.children[1].kind = "button" \/ r.response.outcome = "ok"

\* C9: when a venue was extracted and findRanking returns none, a line with an
\* ellipsis is accepted with entry e exactly when findPrefixMatches returns
\* <<e>>; with no or several prefix matches, and on every line without an
\* ellipsis, the result gets the lookup button and no badge from injectBadges.
C9_PrefixStepPolicy ==
    \A i \in DOMAIN results :
        LET r == results[i]
            v == VenueOf(r)
            prefixMatches == PrefixMatchesOf(v)
        IN Eligible(r) /\ Processed(r) /\ v # NoVenue /\ RankingOf(v) = None =>
              IF HasEllipsis(r) /\ Len(prefixMatches) = 1
              THEN r.children = <<Badge(prefixMatches[1])>> /\ r.via = "prefix"
              ELSE DeferredToLookup(r)

\* C9 witness: a line with an ellipsis whose venue findRanking does not
\* resolve and that is the prefix of one entry carries the badge of that entry
C9_Witness ==
    /\ pc = "ready"
    /\ \E i \in DOMAIN results :
        /\ Eligible(results[i])
        /\ HasEllipsis(results[i])
        /\ VenueOf(results[i]) # NoVenue
        /\ RankingOf(VenueOf(results[i])) = None
        /\ Len(PrefixMatchesOf(VenueOf(results[i]))) = 1
        /\ results[i].children = <<Badge(PrefixMatchesOf(VenueOf(results[i]))[1])>>

\* the 'Not ranked' indicator of r
NotRankedOf(r) ==
    r.children[CHOOSE k \in DOMAIN r.children : r.children[k].kind = "notRanked"]

\* the author line of r gives injectBadges nothing to accept
AuthorLineFails(r) ==
    \/ VenueOf(r) = NoVenue
    \/ /\ RankingOf(VenueOf(r)) = None
       /\ ~(HasEllipsis(r) /\ Len(PrefixMatchesOf(VenueOf(r))) = 1)

\* C10: the 'Not ranked' indicator appears on a result only in a step that
\* settles a lookup of that result: the author line gave nothing to accept, the
\* lookup button was there, the citation came back with an italic span longer
\* than 3 characters, and findRanking returns none for it; no other step, no
\* run of injectBadges and no lookup without venue text, adds the indicator.
C10_NotRankedOnlyAfterFallback ==
    [][\A i \in DOMAIN results' :
          HasChild(results'[i], "notRanked")
              /\ (i \in DOMAIN results => ~HasChild(results[i], "notRanked"))
          => /\ i \in DOMAIN results
             /\ results[i].inflight
             /\ HasChild(results[i], "button")
             /\ Eligible(results[i])
             /\ AuthorLineFails(results[i])
             /\ results'[i].response.outcome = "ok"
             /\ \E k \in DOMAIN results'[i].response.italics :
                   trim(results'[i].response.italics[k]) = NotRankedOf(results'[i]).venue
             /\ Len(NotRankedOf(results'[i]).venue) > 3
             /\ findRanking(NotRankedOf(results'[i]).venue) = None
             /\ results'[i].children = <<NotRankedOf(results'[i])>>]_vars

\* C10 witness: a result whose author line named a venue the index does not
\* hold, and whose lookup came back with another unknown venue, is 'Not ranked'
C10_Witness ==
    \E i \in DOMAIN results :
        /\ HasChild(results[i], "notRanked")
        /\ VenueOf(results[i]) # NoVenue
        /\ results[i].response.outcome = "ok"
        /\ findRanking(NotRankedOf(results[i]).venue) = None

-----------------------------------------------------------------------------
(* Properties of findPrefixMatches *)

PrefixMatchesDone == call.fn = "findPrefixMatches" /\ call.done

\* what findPrefixMatches was called with, normalized
TruncatedNormalized == normalizeString(call.truncatedVenue)

\* t is at least as long as n and starts with it, on the strings themselves
HasPrefix(t, n) == Len(t) >= Len(n) /\ SubSeq(t, 1, Len(n)) = n

\* C11: findPrefixMatches returns the empty list for every candidate whose
\* normalized text is shorter than 15 characters, whatever the index holds,
\* an entry whose normalized full name starts with the candidate included.
C11_ShortCandidateHasNoPrefixMatches ==
    PrefixMatchesDone /\ Len(TruncatedNormalized) < 15 => call.result = <<>>

\* C11 witness: a candidate of fewer than 15 normalized characters that a full
\* name of the index starts with was looked up, and nothing came back
C11_Witness ==
    /\ PrefixMatchesDone
    /\ TruncatedNormalized # <<>>
    /\ Len(TruncatedNormalized) < 15
    /\ \E m \in Range(rankingsData.conferences) :
          HasPrefix(normalizeString(m.value.fullName), TruncatedNormalized)
    /\ call.result = <<>>

\* C12: every entry of the list findPrefixMatches returns, from the conference
\* pass, the journal pass or the alias pass, has a normalized full name at
\* least as long as the normalized candidate and starting with it.
C12_EveryMatchStartsWithCandidate ==
    PrefixMatchesDone =>
        \A i \in DOMAIN call.result :
            HasPrefix(normalizeString(call.result[i].fullName), TruncatedNormalized)

\* the canonical keys findPrefixMatches reaches for n: the keys of the
\* conferences and journals whose full name starts with n, and the keys the
\* aliases starting with n resolve to
ReachedKeys(index, n) ==
    {m.key : m \in {e \in Range(index.conferences) \cup Range(index.journals) :
                        HasPrefix(normalizeString(e.value.fullName), n)}}
      \cup {a.value : a \in {x \in Range(index.aliases) :
                        /\ HasPrefix(normalizeString(x.key), n)
                        /\ Resolves(index.conferences, x.value)
                              \cup Resolves(index.journals, x.value) # {}}}

\* C13: the list findPrefixMatches returns never holds two entries with the
\* same canonical key; it lists each canonical key it reaches once, so an
\* entry reached by its full name and by its aliases counts as one match.
C13_OneMatchPerCanonicalKey ==
    PrefixMatchesDone =>
        /\ \A i, j \in DOMAIN call.result :
              i # j => call.result[i].key # call.result[j].key
        /\ Len(TruncatedNormalized) >= 15 =>
              {call.result[i].key : i \in DOMAIN call.result}
                  = ReachedKeys(rankingsData, TruncatedNormalized)

\* C13 witness: an entry reached by its own full name and by two of its
\* aliases is the one prefix match
C13_Witness ==
    /\ PrefixMatchesDone
    /\ Len(call.result) = 1
    /\ \E m \in Range(rankingsData.conferences) :
          /\ m.key = call.result[1].key
          /\ HasPrefix(normalizeString(m.value.fullName), TruncatedNormalized)
          /\ Cardinality({a \in Range(rankingsData.aliases) :
                            /\ a.value = m.key
                            /\ HasPrefix(normalizeString(a.key), TruncatedNormalized)}) = 2

-----------------------------------------------------------------------------
(* Properties of extractVenueFromAuthorLine *)

ExtractDone == call.fn = "extractVenueFromAuthorLine" /\ call.done

\* the separator-delimited parts of the author line of the call, trimmed (none
\* for the empty text, which is not split)
CallParts ==
    IF call.authorLineText = <<>> THEN <<>>
    ELSE LET parts == split(call.authorLineText)
         IN [i \in DOMAIN parts |-> trim(parts[i])]

\* the positions after the author segment whose part is not skipped and cleans
\* to 3 characters or more
AcceptedParts ==
    {i \in 2..Len(CallParts) :
        ~IsSkipped(CallParts[i]) /\ Len(CleanPart(CallParts[i])) >= 3}

\* C14: extractVenueFromAuthorLine returns the cleaned text of the lowest-index
\* part after the author segment that is not skipped and cleans to 3 characters
\* or more; it returns none exactly when there is no such part, so for every
\* text with fewer than two parts.
C14_FirstAcceptedPartIsTheVenue ==
    ExtractDone =>
        /\ call.result = NoVenue <=> AcceptedParts = {}
        /\ \A i \in AcceptedParts :
              (\A j \in AcceptedParts : i <= j) => call.result = CleanPart(CallParts[i])
        /\ (call.authorLineText = <<>> \/ Len(CallParts) < 2) => call.result = NoVenue

\* C14 witness: the author segment would itself pass as a venue, the part after
\* it cleans to fewer than 3 characters, and the venue came from the third part
C14_Witness ==
    /\ ExtractDone
    /\ Len(CallParts) = 3
    /\ ~IsSkipped(CallParts[1]) /\ Len(CleanPart(CallParts[1])) >= 3
    /\ ~IsSkipped(CallParts[2]) /\ Len(CleanPart(CallParts[2])) < 3
    /\ call.result = CleanPart(CallParts[3])
    /\ call.result # CleanPart(CallParts[1])

\* a bare 4-digit year, a part with a publisher domain fragment, or the name
\* of a known publisher
IsBarred(part) ==
    IsYearOnly(part) \/ HasDomainFragment(part) \/ IsKnownPublisher(part)

\* C15: a part that is a bare 4-digit year, or contains a publisher domain
\* fragment, or equals a known publisher name is never returned as the venue:
\* a venue returned is the cleaned text of a part that is none of these, and
\* a line whose parts after the author segment are all of these gives none.
C15_BarredPartsAreNeverTheVenue ==
    ExtractDone =>
        /\ (\A i \in 2..Len(CallParts) : IsBarred(CallParts[i])) => call.result = NoVenue
        /\ call.result # NoVenue =>
              \E i \in 2..Len(CallParts) :
                  /\ ~IsBarred(CallParts[i])
                  /\ CleanPart(CallParts[i]) = call.result
                  /\ \A j \in 2..(i - 1) :
                        IsBarred(CallParts[j]) \/ Len(CleanPart(CallParts[j])) < 3

\* C15 witness: a publisher name of 3 characters or more stands before the
\* part the venue came from
C15_Witness ==
    /\ ExtractDone
    /\ Len(CallParts) = 3
    /\ IsKnownPublisher(CallParts[2]) /\ Len(CallParts[2]) >= 3
    /\ call.result # NoVenue
    /\ call.result = CleanPart(CallParts[3])
    /\ call.result # CallParts[2]

\* C16: for 'Proceedings of the <organization> <numeric ordinal> <name>,
\* <year>' followed by a publisher-domain part, the venue is exactly <name>:
\* year, 'Proceedings of the', organization and ordinal are removed, and an
\* unspaced hyphen inside the name is kept.
C16_RuleChainLeavesTheName ==
    ExtractDone =>
        \A o \in OrganizationNames, d \in NumericOrdinals, n \in ConferenceNames :
            call.authorLineText = RuleChainLine(o, d, n) => call.result = n

\* C16 witness: the example line gave 'International Conference on
\* Cyber-Physical'
C16_Witness ==
    /\ ExtractDone
    /\ call.authorLineText = Line_Proceedings
    /\ call.authorLineText = RuleChainLine(O_ACMIEEE, D_16th, N_ICCP)
    /\ call.result = N_ICCP
    /\ \E i \in DOMAIN call.result : call.result[i] = "-"

-----------------------------------------------------------------------------
(* Properties of the venue taken from the citation popup *)

CitationVenueDone == call.fn = "citationVenue" /\ call.done

\* the trimmed text of the first span of italics longer than 3 characters once
\* trimmed, or NoVenue
FirstLongSpan(italics) ==
    LET Long(i) == Len(trim(italics[i])) > 3
    IN IF \E i \in DOMAIN italics : Long(i)
       THEN trim(italics[CHOOSE i \in DOMAIN italics :
                            Long(i) /\ \A j \in 1..(i - 1) : ~Long(j)])
       ELSE NoVenue

\* C17: the venue taken from the italic spans of the citation is the trimmed
\* text of the first span whose trimmed text is longer than 3 characters, and
\* none when there is no such span, in handleFetchClick and in
\* extractVenueFromMLA; a span of exactly 3 characters is never the venue.
C17_FirstSpanLongerThanThree ==
    CitationVenueDone =>
        /\ call.result = FirstLongSpan(call.italics)
        /\ call.resultContentJs = FirstLongSpan(call.italics)
        /\ Len(call.result) # 3 /\ Len(call.resultContentJs) # 3

-----------------------------------------------------------------------------
(* Properties of normalizeString *)

NormalizeDone == call.fn = "normalizeString" /\ call.done

\* s holds only lowercase ASCII letters, digits and single spaces, and no
\* space at either end
IsNormalForm(s) ==
    /\ \A i \in DOMAIN s : s[i] \in LowerSet \cup DigitSet \cup {" "}
    /\ \A i \in 1..(Len(s) - 1) : ~(s[i] = " " /\ s[i + 1] = " ")
    /\ s # <<>> => s[1] # " " /\ s[Len(s)] # " "

\* C18: normalizeString is total and idempotent: for every string, the empty
\* one included, it returns a string, normalizing that string again gives the
\* same string, and the string holds only lowercase ASCII letters, digits and
\* single spaces, with no space at either end.
C18_NormalizeIsIdempotent ==
    NormalizeDone =>
        /\ call.result \in Seq(LowerSet \cup DigitSet \cup {" "})
        /\ call.again = call.result
        /\ IsNormalForm(call.result)
        /\ call.str = <<>> => call.result = <<>>

\* C18 witness: a string with an uppercase letter and punctuation between two
\* spaces was normalized to two words one space apart, and normalizing again
\* changed nothing
C18_Witness ==
    /\ NormalizeDone
    /\ call.str = <<"Z", " ", "-", "NBSP", "a">>
    /\ call.result = <<"z", " ", "a">>
    /\ call.again = call.result

-----------------------------------------------------------------------------
(* Properties of loadRankingsData *)

\* a JSON value with its three collections, every entry value holding a full
\* name
IsWellFormed(value) ==
    /\ value # JsonNull
    /\ {"conferences", "journals", "aliases"} \subseteq DOMAIN value
    /\ \A m \in Range(value.conferences) \cup Range(value.journals) :
          m.value # JsonNull /\ m.value.fullName # <<>>

\* the load ended without a well-formed payload
IsMalformedLoad(outcome) == outcome.kind # "json" \/ ~IsWellFormed(outcome.value)

\* C19: for every missing or malformed payload (the fetch fails, the parse
\* fails, a collection is lacking, an entry value is malformed), the index has
\* zero conferences, journals and aliases after the load, and every later
\* findRanking returns none without throwing.
C19_MalformedPayloadGivesEmptyIndex ==
    call.fn \in {"loadRankingsData", "findRanking"} /\ call.done
            /\ IsMalformedLoad(call.outcome) =>
        /\ rankingsData = EmptyData
        /\ call.fn = "findRanking" => call.result = None

-----------------------------------------------------------------------------
(* The index after the load *)

\* C20: once loadRankingsData has completed, no step of the page (badge
\* injection, re-scan, lazy lookup, with the findRanking and findPrefixMatches
\* calls they make) changes the ranking index, and the texts the candidates
\* are taken from stay as they were.
C20_IndexUnchangedAfterLoad ==
    [][pc # "start" =>
          /\ rankingsData' = rankingsData
          /\ \A i \in DOMAIN results :
                /\ i \in DOMAIN results'
                /\ results'[i].authorLine = results[i].authorLine
                /\ results'[i].title = results[i].title
                /\ textContent(results'[i].authorLine) = textContent(results[i].authorLine)]_vars

\* C20 witness: a result got its badge from a lazy lookup, after badge
\* injection had left a lookup button, and the index is a loaded payload
C20_Witness ==
    /\ pc = "ready"
    /\ rankingsData \in PagePayloads
    /\ \E i \in DOMAIN results :
          /\ HasChild(results[i], "badge")
          /\ results[i].response # NoResponse
          /\ results[i].response.outcome = "ok"

-----------------------------------------------------------------------------
(* Lookups of several results in flight *)

\* the lookup of r has settled: a response has arrived and no fetch is pending
Settled(r) == ~r.inflight /\ r.response # NoResponse

\* the button of r is enabled in the failed state
Retryable(r) ==
    /\ HasChild(r, "button")
    /\ TheButton(r).label = "x"
    /\ ~TheButton(r).disabled

\* findRanking on the venue of each citation, in each index, computed once
rankingOfCitation ==
    [index \in Indexes, italics \in ItalicsPool |->
        IF FirstLongSpan(italics) = NoVenue THEN None
        ELSE findRankingIn(index, FirstLongSpan(italics))]

\* what the response alone says the result shows
ShowsOutcomeOf(r, response) ==
    IF response.outcome # "ok" \/ FirstLongSpan(response.italics) = NoVenue
    THEN Retryable(r) /\ Len(r.children) = 1
    ELSE IF rankingOfCitation[rankingsData, response.italics] # None
         THEN r.children = <<Badge(rankingOfCitation[rankingsData, response.italics])>>
         ELSE r.children = <<NotRankedSpan(FirstLongSpan(response.italics))>>

\* C21: with the lookups of two or more results in flight at once, what each
\* result shows once its lookup has settled (the badge of the matched entry,
\* 'Not ranked', or the retry state) is given by its own response alone,
\* whatever the others have received and in whatever order the responses
\* arrive.
C21_AnnotationFromOwnResponse ==
    \A i \in DOMAIN results :
        Settled(results[i]) => ShowsOutcomeOf(results[i], results[i].response)

\* C21 witness: the responses arrived out of document order: the second result
\* shows its badge while the lookup of the first is still in flight, both
\* having been in flight together
C21_Witness ==
    /\ Len(results) = MaxLookups
    /\ results[1].inflight
    /\ results[1].response = NoResponse
    /\ Settled(results[2])
    /\ HasChild(results[2], "badge")

-----------------------------------------------------------------------------
(* Privacy: when the citation popup is fetched *)

\* C22: the fetch of the citation popup of a result starts only in the step
\* of a click on the lookup button of that result that passes the cooldown;
\* the load of the index, badge injection and the re-scans of the observer
\* start none.
C22_FetchOnlyAfterClick ==
    [][\A i \in DOMAIN results' :
          (results'[i].inflight /\ ~(i \in DOMAIN results /\ results[i].inflight))
              => /\ i \in DOMAIN results
                 /\ HasChild(results[i], "button")
                 /\ ~TheButton(results[i]).disabled
                 /\ now - lastFetchTime >= FETCH_COOLDOWN
                 /\ lastFetchTime' = now]_vars

-----------------------------------------------------------------------------
(* Sorting by citations *)

\* the N of the "Cited by N" link of each link text of the pages, 0 for a
\* link that is not one
CitedByOf ==
    [citedBy12 |-> 12, citedBy3 |-> 3, citedBy7 |-> 7, related |-> 0, versions |-> 0]

\* the citations of a result: the N of its "Cited by N" link, 0 without one
CitationsOf(r) ==
    IF \E i \in DOMAIN r.links : CitedByOf[r.links[i]] > 0
    THEN CitedByOf[r.links[CHOOSE i \in DOMAIN r.links : CitedByOf[r.links[i]] > 0]]
    ELSE 0

\* sortResults has run in the step: the sort option changed, or the observer
\* re-scanned
SortResultsRan == currentSort' # currentSort \/ timers' < timers

\* the orders of rs are a permutation of 0..n-1
OrdersArePermutation(rs) ==
    /\ \A i \in DOMAIN rs : rs[i].order \in 0..(Len(rs) - 1)
    /\ \A i, j \in DOMAIN rs : rs[i].order = rs[j].order => i = j

\* C23: after sortResults('citations-desc') any two results a, b with
\* order(a) < order(b) have citations(a) >= citations(b), and <= after
\* sortResults('citations-asc'); a result without a "Cited by N" link counts
\* as 0; the orders assigned are a permutation of 0..n-1.
C23_SortedByCitations ==
    [][(SortResultsRan /\ currentSort' # "default") =>
          /\ OrdersArePermutation(results')
          /\ \A a, b \in DOMAIN results' :
                results'[a].order < results'[b].order =>
                    IF currentSort' = "citations-desc"
                    THEN CitationsOf(results'[a]) >= CitationsOf(results'[b])
                    ELSE CitationsOf(results'[a]) <= CitationsOf(results'[b])]_vars

\* C23 witness: sorted by citations, high to low, three results of which one
\* has no "Cited by" link and one was moved ahead of its original place
C23_Witness ==
    /\ currentSort = "citations-desc"
    /\ timers = 0
    /\ Len(results) = MaxSorted
    /\ OrdersArePermutation(results)
    /\ \E i \in DOMAIN results :
          /\ \A k \in DOMAIN results[i].links : CitedByOf[results[i].links[k]] = 0
          /\ results[i].order = Len(results) - 1
    /\ \E i \in DOMAIN results : results[i].order < results[i].originalIndex

-----------------------------------------------------------------------------
(* Restoring the original order *)

\* C24: after sortResults('default'), whatever sorts and additions came
\* before, every result on the page has as display order its own original
\* index, and the original indices of the results are pairwise distinct.
C24_DefaultRestoresOriginalOrder ==
    [][(currentSort' # currentSort /\ currentSort' = "default") =>
          /\ \A i \in DOMAIN results' :
                /\ results'[i].originalIndex # Unset
                /\ results'[i].order = results'[i].originalIndex
          /\ \A i, j \in DOMAIN results' :
                results'[i].originalIndex = results'[j].originalIndex => i = j]_vars

-----------------------------------------------------------------------------
(* Exact-match-only entries over the whole pipeline *)

ResolveVenueDone == call.fn = "resolveVenue" /\ call.done

\* no alias of the index leads to key
NoAliasLeadsTo(key) ==
    \A i \in DOMAIN rankingsData.aliases : rankingsData.aliases[i].value # key

\* C25: over findRanking followed by the prefix step, an entry marked
\* exact-match-only gives its badge through its own full name only to a
\* candidate whose normalized text equals its normalized full name; a
\* truncated candidate that is only a prefix of that full name never gets it.
C25_ExactMatchOnlyNeedsEquality ==
    ResolveVenueDone =>
        \A i \in DOMAIN call.result.children :
            LET element == call.result.children[i]
            IN (/\ element.kind = "badge"
                /\ element.ranking.exactMatch
                /\ NoAliasLeadsTo(element.ranking.key))
                   => normalizeString(call.venueName)
                          = normalizeString(element.ranking.fullName)

-----------------------------------------------------------------------------
(* One annotation per result *)

Annotations == {"badge", "button", "notRanked"}

\* the annotations of r: its children of the three kinds
AnnotationsOf(r) == {i \in DOMAIN r.children : r.children[i].kind \in Annotations}

\* C28: in every state a result carries at most one of badge container,
\* lookup button and 'Not ranked' label, whatever the interleaving of
\* injectBadges runs, clicks and fetch completions; a run of injectBadges on a
\* result that is annotated adds nothing to it; a book result is never
\* annotated.
C28_AtMostOneAnnotation ==
    [][/\ \A i \in DOMAIN results' :
             /\ Cardinality(AnnotationsOf(results'[i])) <= 1
             /\ IsBookTitle(textContent(results'[i].title)) => results'[i].children = <<>>
       /\ timers' < timers =>
             \A i \in DOMAIN results :
                 AnnotationsOf(results[i]) # {} =>
                     results'[i].children = results[i].children]_vars

\* C28 witness: the page was re-scanned for a second result when the first
\* was annotated; the lookup of the first has replaced its button, the second
\* carries the lookup button injectBadges gave it
C28_Witness ==
    /\ Len(results) = MaxAnnotated
    /\ timers = 0
    /\ results[1].response # NoResponse
    /\ ~HasChild(results[1], "button")
    /\ Cardinality(AnnotationsOf(results[1])) = 1
    /\ results[2].originalIndex = 1
    /\ HasChild(results[2], "button")
    /\ Cardinality(AnnotationsOf(results[2])) = 1

-----------------------------------------------------------------------------
(* What the extraction may return *)

\* C26: the string extractVenueFromAuthorLine returns is never a bare 4-digit
\* year and never equal, letter case ignored, to a known publisher name,
\* whatever the author line, lines with parts such as '<year>, <year>' or
\* '<publisher>, <year>' included.
C26_NeverYearNorPublisher ==
    (ExtractDone /\ call.result # NoVenue) =>
        /\ ~IsYearOnly(call.result)
        /\ ~IsKnownPublisher(call.result)

-----------------------------------------------------------------------------
(* Aliases whose canonical key is missing *)

\* alias member a of the index is long enough and matches n, but its canonical
\* key is neither a conference nor a journal
AliasDangles(index, n, a) ==
    /\ Len(normalizeString(a.key)) >= 10
    /\ TextsMatch(n, normalizeString(a.key))
    /\ Resolves(index.conferences, a.value) \cup Resolves(index.journals, a.value) = {}

\* the index without the aliases that match n and dangle
WithoutDanglingAliases(index, n) ==
    LET Keep(a) == ~AliasDangles(index, n, a)
    IN [index EXCEPT !.aliases = SelectSeq(@, Keep)]

\* C27: an alias that matches the candidate but whose canonical key is in
\* neither the conferences nor the journals does not end the search: the
\* later aliases and the conference and journal passes are still consulted,
\* and findRanking returns what it returns on the index without that alias.
C27_DanglingAliasIsSkipped ==
    FindRankingDone /\ call.venueName # <<>> =>
        /\ call.result =
              findRankingIn(WithoutDanglingAliases(rankingsData, CallNormalized),
                            call.venueName)
        /\ (\E m \in Range(rankingsData.conferences) \cup Range(rankingsData.journals) :
               EntryQualifies(CallNormalized, m))
              => call.result # None

\* C27 witness: the first alias of the index matches the candidate and
\* dangles, and the search went on to return a ranking
C27_Witness ==
    /\ FindRankingDone
    /\ call.venueName # <<>>
    /\ rankingsData.aliases # <<>>
    /\ AliasDangles(rankingsData, CallNormalized, rankingsData.aliases[1])
    /\ call.result # None

-----------------------------------------------------------------------------
(* The lookup button is never left loading *)

\* the button of r is disabled
ButtonDisabled(r) == HasChild(r, "button") /\ TheButton(r).disabled

\* the lookup of r has come to an end: the button is gone with a badge or
\* 'Not ranked' in its place, or it is enabled again in the failed state
LookupEnded(r) ==
    /\ ~r.inflight
    /\ \/ ~HasChild(r, "button") /\ (HasChild(r, "badge") \/ HasChild(r, "notRanked"))
       \/ Retryable(r)

\* C29: every click that passes the cooldown leaves, once its fetch has
\* resolved or rejected, the button removed with a badge or 'Not ranked' in
\* its place, or enabled again in the failed state; on no path (no article
\* id, HTTP error, network error, no venue in the citation) is the button
\* disabled when no fetch is pending.
C29_LookupNeverStuck ==
    /\ [](\A i \in DOMAIN results : ButtonDisabled(results[i]) => results[i].inflight)
    /\ \A i \in 1..MaxResults :
          (i \in DOMAIN results /\ results[i].inflight)
              ~> (i \in DOMAIN results /\ LookupEnded(results[i]))

\* C29 witness: a retry was clicked after the cooldown and its fetch was
\* rejected: the button is enabled again with "x"
C29_Witness ==
    \E i \in DOMAIN results :
        /\ lastFetchTime > StartTime
        /\ Settled(results[i])
        /\ results[i].response.outcome = "error"
        /\ LookupEnded(results[i])

-----------------------------------------------------------------------------
(* The ranking distribution of a profile page *)

\* the bar shows the distribution of the rows now on the page
BarIsCurrent == pc = "ready" /\ timers = 0 /\ call.fn = "createRankingDistributionBar"

\* the ranking of the venue text Scholar put in the row
OriginalRanking(row) ==
    IF ~row.hasVenueLine \/ cleanProfileVenue(row.text) = NoVenue THEN None
    ELSE findRanking(cleanProfileVenue(row.text))

OriginalCore(row) ==
    IF OriginalRanking(row) = None \/ OriginalRanking(row).core = "" THEN "Unranked"
    ELSE OriginalRanking(row).core

OriginalSjr(row) ==
    IF OriginalRanking(row) = None \/ OriginalRanking(row).sjr = "" THEN "Unranked"
    ELSE OriginalRanking(row).sjr

\* C30: after any sequence of row additions and re-scans the distribution
\* counts every row under the ranking of the venue text of the row as Scholar
\* rendered it: a row that carries a badge is counted under the CORE rank and
\* the SJR quartile its badge shows, and A* + A + B + C + Unranked is the
\* number of rows.
C30_DistributionByOriginalVenue ==
    BarIsCurrent =>
        /\ \A k \in CoreRanks \cup {"Unranked"} :
              call.core[k] = Cardinality({i \in DOMAIN results : OriginalCore(results[i]) = k})
        /\ \A k \in SjrQuartiles \cup {"Unranked"} :
              call.sjr[k] = Cardinality({i \in DOMAIN results : OriginalSjr(results[i]) = k})
        /\ \A i \in DOMAIN results :
              results[i].badges # <<>> =>
                  /\ results[i].badges[1].core = OriginalRanking(results[i]).core
                  /\ results[i].badges[1].sjr = OriginalRanking(results[i]).sjr
        /\ call.core["A*"] + call.core["A"] + call.core["B"] + call.core["C"]
              + call.core["Unranked"] = Len(results)
        /\ call.core["total"] = Len(results)

====
